---- MODULE Spec2Model ----
(***************************************************************************)
(* Crew rostering: instance preprocessing (eligibility, duty conflicts),   *)
(* the feasibility and rostering CP-SAT model builders, the external       *)
(* solver seen as "any valuation that satisfies the built constraints",    *)
(* and the post-solve objective breakdown.                                 *)
(*                                                                         *)
(* Identifiers are strings; Python's string order on them is modelled by   *)
(* their position in IdOrder.  Times are minutes, as in the source.        *)
(***************************************************************************)
EXTENDS Integers, Sequences, FiniteSets, TLC

VARIABLES entry, crew, duties, scenario, prefs, eligible, conflicts, issues, cpm, status, sol,
          breakdown, result, files, frames, warnings, aggregate_issues, pc

vars == <<entry, crew, duties, scenario, prefs, eligible, conflicts, issues, cpm, status, sol,
          breakdown, result, files, frames, warnings, aggregate_issues, pc>>

-----------------------------------------------------------------------------
(* Bounds of the explored instances *)

MaxCrew == 2

MaxDuties == 2

HorizonDays == 2

(* Program constants *)

MINUTES_PER_DAY == 1440

WEEK_LEN == 7

DefaultFairnessW == 100

DefaultWorkedDaysW == 1

DefaultPrefW == 1

ALLOWED_ROLES == {"CAPT", "FO", "FA"}

-----------------------------------------------------------------------------
(* Generic helpers *)

Min2(a, b) == IF a <= b THEN a ELSE b

Max2(a, b) == IF a >= b THEN a ELSE b

SetMin(S) == CHOOSE m \in S : \A n \in S : m <= n

SetMax(S) == CHOOSE m \in S : \A n \in S : m >= n

RECURSIVE Flatten(_)
Flatten(ss) == IF Len(ss) = 0 THEN <<>> ELSE Head(ss) \o Flatten(Tail(ss))

RECURSIVE SortedSeq(_)
SortedSeq(S) == IF S = {} THEN <<>> ELSE <<SetMin(S)>> \o SortedSeq(S \ {SetMin(S)})

Range(s) == {s[i] : i \in DOMAIN s}

RECURSIVE SumSeq(_)
SumSeq(s) == IF Len(s) = 0 THEN 0 ELSE Head(s) + SumSeq(Tail(s))

(* the members of a set, one after the other *)
RECURSIVE SetToSeq(_)
SetToSeq(S) == IF S = {} THEN <<>> ELSE LET e == CHOOSE e \in S : TRUE IN <<e>> \o SetToSeq(S \ {e})

(* Python dict.get(key, default) *)
Get(d, k, default) == IF k \in DOMAIN d THEN d[k] ELSE default

(* Python's order on the strings in use: identifiers, roles, bases, aircraft types *)
IdOrder ==
    <<"A320", "B737", "C1", "C2", "C3", "C4", "C5", "CAPT", "CDG",
      "D1", "D2", "D3", "D4", "D5", "D6", "FA", "FO", "ORY", "PURSER">>

IdRank(s) == CHOOSE i \in DOMAIN IdOrder : IdOrder[i] = s

StrLess(a, b) == IdRank(a) < IdRank(b)

-----------------------------------------------------------------------------
(* Domain records *)

CrewMember(id, role, base, quals, maxm) ==
    [crew_id |-> id, role |-> role, base |-> base, qualified_types |-> quals, max_minutes |-> maxm]

Duty(id, day, s, e, base, type, cov) ==
    [duty_id |-> id, day |-> day, start_min |-> s, end_min |-> e, base |-> base,
     aircraft_type |-> type, coverage |-> cov]

duration_min(d) == d.end_min - d.start_min

OffRequest(c, day, pen) == [crew_id |-> c, day |-> day, penalty |-> pen]

Scenario(h, rest, k, r, w) ==
    [horizon_days |-> h, min_rest_minutes |-> rest, max_consecutive_work_days |-> k,
     min_rest_days_per_week |-> r, late_end_threshold_min |-> 1200,
     early_start_threshold_min |-> 480, weights |-> w]

-----------------------------------------------------------------------------
(* Preprocessing: eligibility *)

(* mutant: the base is not compared *)
EligibleOkNoBase(c, d) ==
    /\ c.role \in DOMAIN d.coverage
    /\ d.aircraft_type \in c.qualified_types

EligibleOk(c, d) ==
    /\ c.role \in DOMAIN d.coverage
    /\ c.base = d.base
    /\ d.aircraft_type \in c.qualified_types

compute_eligibility(cr, ds) ==
    [p \in {<<cr[i].crew_id, ds[j].duty_id>> : i \in DOMAIN cr, j \in DOMAIN ds} |->
        LET c == cr[CHOOSE i \in DOMAIN cr : cr[i].crew_id = p[1]]
            d == ds[CHOOSE j \in DOMAIN ds : ds[j].duty_id = p[2]]
        IN  EligibleOk(c, d)]

-----------------------------------------------------------------------------
(* Preprocessing: duty conflicts *)

abs_start(d) == (d.day - 1) * MINUTES_PER_DAY + d.start_min

abs_end(d) == (d.day - 1) * MINUTES_PER_DAY + d.end_min

(* mutant: a gap of exactly min_rest_minutes counts as a conflict *)
duties_conflict_inclusive(d1, d2, min_rest_minutes) ==
    LET s1 == abs_start(d1)
        e1 == abs_end(d1)
        s2 == abs_start(d2)
        e2 == abs_end(d2)
    IN  IF ~(e1 <= s2 \/ e2 <= s1) THEN TRUE
        ELSE IF e1 <= s2 /\ e1 + min_rest_minutes >= s2 THEN TRUE
        ELSE IF e2 <= s1 /\ e2 + min_rest_minutes >= s1 THEN TRUE
        ELSE FALSE

duties_conflict(d1, d2, min_rest_minutes) ==
    LET s1 == abs_start(d1)
        e1 == abs_end(d1)
        s2 == abs_start(d2)
        e2 == abs_end(d2)
    IN  IF ~(e1 <= s2 \/ e2 <= s1) THEN TRUE
        ELSE IF e1 <= s2 /\ e1 + min_rest_minutes > s2 THEN TRUE
        ELSE IF e2 <= s1 /\ e2 + min_rest_minutes > s1 THEN TRUE
        ELSE FALSE

RECURSIVE ConflictLoop(_, _, _, _)
ConflictLoop(ds, min_rest_minutes, i, j) ==
    IF i > Len(ds) THEN <<>>
    ELSE IF j > Len(ds) THEN ConflictLoop(ds, min_rest_minutes, i + 1, i + 2)
    ELSE (IF duties_conflict(ds[i], ds[j], min_rest_minutes)
          THEN << <<ds[i].duty_id, ds[j].duty_id>> >>
          ELSE <<>>) \o ConflictLoop(ds, min_rest_minutes, i, j + 1)

compute_conflict_pairs(ds, min_rest_minutes) == ConflictLoop(ds, min_rest_minutes, 1, 2)

-----------------------------------------------------------------------------
(* Preprocessing: coverage feasibility checks *)

(* mutant: an exactly sufficient count is reported as a shortfall *)
ShortfallInclusive(count, required_n) == count <= required_n

(* count < int(required_n) *)
Shortfall(count, required_n) == count < required_n

(* mutant: the issue reports the missing number in place of the eligible count *)
CoverageIssueMissingCount(d, role, eligible_crew) ==
    [duty_id |-> d.duty_id, day |-> d.day, role |-> role, required |-> d.coverage[role],
     eligible_count |-> d.coverage[role] - Len(eligible_crew),
     eligible_crew_ids |-> SortSeq(eligible_crew, StrLess)]

CoverageIssue(d, role, eligible_crew) ==
    [duty_id |-> d.duty_id, day |-> d.day, role |-> role, required |-> d.coverage[role],
     eligible_count |-> Len(eligible_crew), eligible_crew_ids |-> SortSeq(eligible_crew, StrLess)]

(* mutant: the sort key leaves out the gap *)
CoverageIssueLessNoGap(a, b) ==
    \/ a.day < b.day
    \/ a.day = b.day /\ StrLess(a.duty_id, b.duty_id)
    \/ a.day = b.day /\ a.duty_id = b.duty_id /\ StrLess(a.role, b.role)

(* key (eligible_count - required, day, duty_id, role) of the final sort *)
CoverageIssueLess(a, b) ==
    LET ga == a.eligible_count - a.required
        gb == b.eligible_count - b.required
    IN  \/ ga < gb
        \/ ga = gb /\ a.day < b.day
        \/ ga = gb /\ a.day = b.day /\ StrLess(a.duty_id, b.duty_id)
        \/ ga = gb /\ a.day = b.day /\ a.duty_id = b.duty_id /\ StrLess(a.role, b.role)

check_coverage_feasibility(cr, ds, elig) ==
    LET eligible_crew(d, role) ==
            Flatten([i \in DOMAIN cr |->
                IF cr[i].role = role /\ Get(elig, <<cr[i].crew_id, d.duty_id>>, FALSE)
                THEN <<cr[i].crew_id>>
                ELSE <<>>])
        roles(d) == SortSeq(SetToSeq(DOMAIN d.coverage), StrLess)
        found == Flatten([j \in DOMAIN ds |->
                      Flatten([n \in DOMAIN roles(ds[j]) |->
                          IF Shortfall(Len(eligible_crew(ds[j], roles(ds[j])[n])),
                                       ds[j].coverage[roles(ds[j])[n]])
                          THEN <<CoverageIssue(ds[j], roles(ds[j])[n],
                                               eligible_crew(ds[j], roles(ds[j])[n]))>>
                          ELSE <<>>])])
    IN  SortSeq(found, CoverageIssueLess)

AggregateCoverageIssue(bucket, role, required_total, bucket_duties, available_crew_ids) ==
    [day |-> bucket[1], base |-> bucket[2], aircraft_type |-> bucket[3], role |-> role,
     required_total |-> required_total, available_total |-> Len(available_crew_ids),
     duty_ids |-> SortSeq([n \in DOMAIN bucket_duties |-> bucket_duties[n].duty_id], StrLess),
     available_crew_ids |-> SortSeq(available_crew_ids, StrLess)]

(* key (available_total - required_total, day, base, aircraft_type, role) of the final sort *)
AggregateIssueLess(a, b) ==
    LET ga == a.available_total - a.required_total
        gb == b.available_total - b.required_total
    IN  \/ ga < gb
        \/ ga = gb /\ a.day < b.day
        \/ ga = gb /\ a.day = b.day /\ StrLess(a.base, b.base)
        \/ ga = gb /\ a.day = b.day /\ a.base = b.base /\ StrLess(a.aircraft_type, b.aircraft_type)
        \/ ga = gb /\ a.day = b.day /\ a.base = b.base /\ a.aircraft_type = b.aircraft_type
           /\ StrLess(a.role, b.role)

(* mutant: the pool of a bucket is counted without regard to the base *)
check_aggregate_coverage_feasibility_any_base(cr, ds) ==
    LET buckets == {<<ds[j].day, ds[j].base, ds[j].aircraft_type>> : j \in DOMAIN ds}
        bucket_duties(b) == SelectSeq(ds, LAMBDA d : <<d.day, d.base, d.aircraft_type>> = b)
        roles(b) == UNION {DOMAIN bucket_duties(b)[n].coverage : n \in DOMAIN bucket_duties(b)}
        required_by_role(b, role) ==
            SumSeq([n \in DOMAIN bucket_duties(b) |-> Get(bucket_duties(b)[n].coverage, role, 0)])
        available_crew_ids(b, role) ==
            Flatten([i \in DOMAIN cr |->
                IF cr[i].role = role /\ b[3] \in cr[i].qualified_types
                THEN <<cr[i].crew_id>>
                ELSE <<>>])
        found == UNION {{AggregateCoverageIssue(b, role, required_by_role(b, role),
                                                 bucket_duties(b), available_crew_ids(b, role)) :
                             role \in {r \in roles(b) :
                                          Len(available_crew_ids(b, r)) < required_by_role(b, r)}} :
                         b \in buckets}
    IN  SortSeq(SetToSeq(found), AggregateIssueLess)

check_aggregate_coverage_feasibility(cr, ds) ==
    LET buckets == {<<ds[j].day, ds[j].base, ds[j].aircraft_type>> : j \in DOMAIN ds}
        bucket_duties(b) == SelectSeq(ds, LAMBDA d : <<d.day, d.base, d.aircraft_type>> = b)
        roles(b) == UNION {DOMAIN bucket_duties(b)[n].coverage : n \in DOMAIN bucket_duties(b)}
        required_by_role(b, role) ==
            SumSeq([n \in DOMAIN bucket_duties(b) |-> Get(bucket_duties(b)[n].coverage, role, 0)])
        available_crew_ids(b, role) ==
            Flatten([i \in DOMAIN cr |->
                IF cr[i].role = role /\ cr[i].base = b[2] /\ b[3] \in cr[i].qualified_types
                THEN <<cr[i].crew_id>>
                ELSE <<>>])
        found == UNION {{AggregateCoverageIssue(b, role, required_by_role(b, role),
                                                 bucket_duties(b), available_crew_ids(b, role)) :
                             role \in {r \in roles(b) :
                                          Len(available_crew_ids(b, r)) < required_by_role(b, r)}} :
                         b \in buckets}
    IN  SortSeq(SetToSeq(found), AggregateIssueLess)

-----------------------------------------------------------------------------
(* Preprocessing: instance validation; "ok" or the exception raised *)

validate_crew(cr) ==
    IF Cardinality({cr[i].crew_id : i \in DOMAIN cr}) # Len(cr) THEN "ValueError"
    ELSE IF \E i \in DOMAIN cr :
               \/ cr[i].role \notin ALLOWED_ROLES
               \/ cr[i].max_minutes <= 0
               \/ cr[i].qualified_types = {}
    THEN "ValueError"
    ELSE "ok"

(* mutant: a duty that ends when it starts is accepted *)
validate_duties_zero_length(ds, horizon_days) ==
    IF Cardinality({ds[j].duty_id : j \in DOMAIN ds}) # Len(ds) THEN "ValueError"
    ELSE IF \E j \in DOMAIN ds :
               \/ ~(1 <= ds[j].day /\ ds[j].day <= horizon_days)
               \/ ~(0 <= ds[j].start_min /\ ds[j].start_min < 24 * 60)
               \/ ~(0 <= ds[j].end_min /\ ds[j].end_min <= 24 * 60)
               \/ ds[j].end_min < ds[j].start_min
               \/ duration_min(ds[j]) > 24 * 60
               \/ DOMAIN ds[j].coverage = {}
               \/ \E role \in DOMAIN ds[j].coverage :
                     role \notin ALLOWED_ROLES \/ ds[j].coverage[role] <= 0
    THEN "ValueError"
    ELSE "ok"

validate_duties(ds, horizon_days) ==
    IF Cardinality({ds[j].duty_id : j \in DOMAIN ds}) # Len(ds) THEN "ValueError"
    ELSE IF \E j \in DOMAIN ds :
               \/ ~(1 <= ds[j].day /\ ds[j].day <= horizon_days)
               \/ ~(0 <= ds[j].start_min /\ ds[j].start_min < 24 * 60)
               \/ ~(0 <= ds[j].end_min /\ ds[j].end_min <= 24 * 60)
               \/ ds[j].end_min <= ds[j].start_min
               \/ duration_min(ds[j]) > 24 * 60
               \/ DOMAIN ds[j].coverage = {}
               \/ \E role \in DOMAIN ds[j].coverage :
                     role \notin ALLOWED_ROLES \/ ds[j].coverage[role] <= 0
    THEN "ValueError"
    ELSE "ok"

-----------------------------------------------------------------------------
(* CP-SAT model under construction: variables with their domains in        *)
(* creation order, a set of constraints, an objective (a linear form).     *)

Var(k, c, d, day) == [k |-> k, c |-> c, d |-> d, day |-> day]

NoVar == Var("", "", "", 0)

XVar(c_id, d_id) == Var("x", c_id, d_id, 0)

TotalVar(c_id) == Var("total_minutes", c_id, "", 0)

WorkVar(c_id, day) == Var("work", c_id, "", day)

MaxLoadVar == Var("max_load", "", "", 0)

MinLoadVar == Var("min_load", "", "", 0)

SpreadVar == Var("spread", "", "", 0)

WorkedDaysVar == Var("worked_days", "", "", 0)

PrefCostVar == Var("preference_cost", "", "", 0)

(* model.NewIntVar(lo, hi, name) / model.NewBoolVar(name) *)
NewIntVar(lo, hi, v) == [var |-> v, lo |-> lo, hi |-> hi]

NewBoolVar(v) == NewIntVar(0, 1, v)

(* coef * var *)
T(coef, v) == [coef |-> coef, var |-> v]

(* model.Add(sum(terms) op rhs), op in "eq", "le", "ge" *)
Lin(terms, op, rhs) == [kind |-> "lin", target |-> NoVar, terms |-> terms, op |-> op, rhs |-> rhs]

(* model.AddMaxEquality(target, exprs) / model.AddMinEquality(target, exprs) *)
AddMaxEquality(target, exprs) ==
    [kind |-> "max", target |-> target, terms |-> [i \in DOMAIN exprs |-> T(1, exprs[i])],
     op |-> "eq", rhs |-> 0]

AddMinEquality(target, exprs) ==
    [kind |-> "min", target |-> target, terms |-> [i \in DOMAIN exprs |-> T(1, exprs[i])],
     op |-> "eq", rhs |-> 0]

Neg(terms) == [i \in DOMAIN terms |-> T(0 - terms[i].coef, terms[i].var)]

(* Python's sum over the penalties *)
RECURSIVE SumPenalties(_)
SumPenalties(reqs) == IF Len(reqs) = 0 THEN 0 ELSE Head(reqs).penalty + SumPenalties(Tail(reqs))

-----------------------------------------------------------------------------
(* Pieces shared by build_feasibility_model and build_rostering_model *)

(* x: keys of the assignment variables, in creation order *)
(* mutant: a variable for every pair, eligible or not *)
AssignmentKeysAll(cr, ds, elig) ==
    Flatten([i \in DOMAIN cr |-> [j \in DOMAIN ds |-> <<cr[i].crew_id, ds[j].duty_id>>]])

AssignmentKeys(cr, ds, elig) ==
    Flatten([i \in DOMAIN cr |->
        Flatten([j \in DOMAIN ds |->
            IF Get(elig, <<cr[i].crew_id, ds[j].duty_id>>, FALSE)
            THEN << <<cr[i].crew_id, ds[j].duty_id>> >>
            ELSE <<>>])])

(* vars_for_role for one duty and one role *)
VarsForRole(cr, d, role, x) ==
    Flatten([i \in DOMAIN cr |->
        IF cr[i].role = role /\ <<cr[i].crew_id, d.duty_id>> \in x
        THEN <<T(1, XVar(cr[i].crew_id, d.duty_id))>>
        ELSE <<>>])

(* mutant: coverage as a minimum instead of an exact count *)
CoverageConstraintsAtLeast(cr, ds, x) ==
    UNION {{Lin(VarsForRole(cr, ds[j], role, x), "ge", ds[j].coverage[role]) :
                role \in DOMAIN ds[j].coverage} : j \in DOMAIN ds}

CoverageConstraints(cr, ds, x) ==
    UNION {{Lin(VarsForRole(cr, ds[j], role, x), "eq", ds[j].coverage[role]) :
                role \in DOMAIN ds[j].coverage} : j \in DOMAIN ds}

(* mutant: a conflicting pair may be taken together *)
ConflictConstraintsRelaxed(cr, confl, x) ==
    UNION {{Lin(<<T(1, XVar(cr[i].crew_id, confl[k][1])), T(1, XVar(cr[i].crew_id, confl[k][2]))>>, "le", 2) :
                k \in {k \in DOMAIN confl : /\ <<cr[i].crew_id, confl[k][1]>> \in x
                                            /\ <<cr[i].crew_id, confl[k][2]>> \in x}} :
           i \in DOMAIN cr}

ConflictConstraints(cr, confl, x) ==
    UNION {{Lin(<<T(1, XVar(cr[i].crew_id, confl[k][1])), T(1, XVar(cr[i].crew_id, confl[k][2]))>>, "le", 1) :
                k \in {k \in DOMAIN confl : /\ <<cr[i].crew_id, confl[k][1]>> \in x
                                            /\ <<cr[i].crew_id, confl[k][2]>> \in x}} :
           i \in DOMAIN cr}

-----------------------------------------------------------------------------
(* build_feasibility_model *)

build_feasibility_model(cr, ds, elig, confl) ==
    LET xs == AssignmentKeys(cr, ds, elig)
        x  == Range(xs)
    IN  [kind |-> "feasibility",
         ok |-> TRUE,
         error |-> "",
         x |-> x,
         work |-> {},
         vars |-> [i \in DOMAIN xs |-> NewBoolVar(XVar(xs[i][1], xs[i][2]))],
         constraints |-> CoverageConstraints(cr, ds, x) \cup ConflictConstraints(cr, confl, x),
         has_objective |-> FALSE,
         objective |-> <<>>]

-----------------------------------------------------------------------------
(* build_rostering_model, section by section *)

(* terms of "t == sum_d x[c,d] * duration(d)" for one crew member *)
(* mutant: duties counted instead of their minutes *)
LoadTermsUnit(c, ds, x) ==
    Flatten([j \in DOMAIN ds |->
        IF <<c.crew_id, ds[j].duty_id>> \in x
        THEN <<T(1, XVar(c.crew_id, ds[j].duty_id))>>
        ELSE <<>>])

LoadTerms(c, ds, x) ==
    Flatten([j \in DOMAIN ds |->
        IF <<c.crew_id, ds[j].duty_id>> \in x
        THEN <<T(duration_min(ds[j]), XVar(c.crew_id, ds[j].duty_id))>>
        ELSE <<>>])

WorkloadVars(cr) == [i \in DOMAIN cr |-> NewIntVar(0, cr[i].max_minutes, TotalVar(cr[i].crew_id))]

WorkloadConstraints(cr, ds, x) ==
    UNION {{Lin(<<T(1, TotalVar(cr[i].crew_id))>> \o Neg(LoadTerms(cr[i], ds, x)), "eq", 0),
            Lin(<<T(1, TotalVar(cr[i].crew_id))>>, "le", cr[i].max_minutes)} : i \in DOMAIN cr}

MaxCap(cr) == IF Len(cr) > 0 THEN SetMax({cr[i].max_minutes : i \in DOMAIN cr}) ELSE 0

FairnessVars(cr) == <<NewIntVar(0, MaxCap(cr), MaxLoadVar), NewIntVar(0, MaxCap(cr), MinLoadVar)>>

(* mutant: min_load tied to the maximum as well *)
FairnessConstraintsBothMax(cr) ==
    LET total_vars_list == [i \in DOMAIN cr |-> TotalVar(cr[i].crew_id)]
    IN  {AddMaxEquality(MaxLoadVar, total_vars_list), AddMaxEquality(MinLoadVar, total_vars_list)}

FairnessConstraints(cr) ==
    LET total_vars_list == [i \in DOMAIN cr |-> TotalVar(cr[i].crew_id)]
    IN  {AddMaxEquality(MaxLoadVar, total_vars_list), AddMinEquality(MinLoadVar, total_vars_list)}

(* work: keys (crew_id, day) in creation order *)
WorkKeys(cr, horizon_days) ==
    Flatten([i \in DOMAIN cr |-> [day \in 1..horizon_days |-> <<cr[i].crew_id, day>>]])

(* day_vars for one crew member and one day *)
DayVars(c_id, day, ds, x) ==
    Flatten([j \in DOMAIN ds |->
        IF ds[j].day = day /\ <<c_id, ds[j].duty_id>> \in x
        THEN <<T(1, XVar(c_id, ds[j].duty_id))>>
        ELSE <<>>])

(* mutant: the indicator is only forced up, never down *)
WorkLinkOneWay(c_id, day, ds, x) ==
    LET w == WorkVar(c_id, day)
        day_vars == DayVars(c_id, day, ds, x)
    IN  IF Len(day_vars) > 0
        THEN {Lin(<<T(1, w), T(-1, day_vars[n].var)>>, "ge", 0) : n \in DOMAIN day_vars}
        ELSE {Lin(<<T(1, w)>>, "eq", 0)}

(* mutant: a day without eligible duty counts as worked *)
WorkLinkIdleWorks(c_id, day, ds, x) ==
    LET w == WorkVar(c_id, day)
        day_vars == DayVars(c_id, day, ds, x)
    IN  IF Len(day_vars) > 0
        THEN {Lin(<<T(1, w), T(-1, day_vars[n].var)>>, "ge", 0) : n \in DOMAIN day_vars}
             \cup {Lin(<<T(1, w)>> \o Neg(day_vars), "le", 0)}
        ELSE {Lin(<<T(1, w)>>, "eq", 1)}

WorkLink(c_id, day, ds, x) ==
    LET w == WorkVar(c_id, day)
        day_vars == DayVars(c_id, day, ds, x)
    IN  IF Len(day_vars) > 0
        THEN {Lin(<<T(1, w), T(-1, day_vars[n].var)>>, "ge", 0) : n \in DOMAIN day_vars}
             \cup {Lin(<<T(1, w)>> \o Neg(day_vars), "le", 0)}
        ELSE {Lin(<<T(1, w)>>, "eq", 0)}

WorkConstraints(cr, ds, x, horizon_days) ==
    UNION {WorkLink(cr[i].crew_id, day, ds, x) : i \in DOMAIN cr, day \in 1..horizon_days}

(* mutant: the window holds K days instead of K + 1 *)
MaxConsecutiveConstraintsShortWindow(cr, horizon_days, K) ==
    IF K < horizon_days
    THEN {Lin([n \in 1..K |-> T(1, WorkVar(cr[i].crew_id, start_day + n - 1))], "le", K) :
             i \in DOMAIN cr, start_day \in 1..(horizon_days - K)}
    ELSE {}

MaxConsecutiveConstraints(cr, horizon_days, K) ==
    IF K < horizon_days
    THEN {Lin([n \in 1..(K + 1) |-> T(1, WorkVar(cr[i].crew_id, start_day + n - 1))], "le", K) :
             i \in DOMAIN cr, start_day \in 1..(horizon_days - K)}
    ELSE {}

(* mutant: every block is taken to hold WEEK_LEN days, the last one too *)
WeeklyRestConstraintsFullWeek(cr, horizon_days, R) ==
    IF R > 0
    THEN LET num_weeks == (horizon_days + WEEK_LEN - 1) \div WEEK_LEN
             start(w) == w * WEEK_LEN + 1
             end(w) == Min2((w + 1) * WEEK_LEN, horizon_days)
             days_in_week(w) == end(w) - start(w) + 1
         IN  {Lin([n \in 1..days_in_week(w) |-> T(1, WorkVar(cr[i].crew_id, start(w) + n - 1))],
                  "le", WEEK_LEN - R) :
                 i \in DOMAIN cr, w \in 0..(num_weeks - 1)}
    ELSE {}

(* mutant: each block may keep one rest day fewer than required *)
WeeklyRestConstraintsOneShort(cr, horizon_days, R) ==
    IF R > 0
    THEN LET num_weeks == (horizon_days + WEEK_LEN - 1) \div WEEK_LEN
             start(w) == w * WEEK_LEN + 1
             end(w) == Min2((w + 1) * WEEK_LEN, horizon_days)
             days_in_week(w) == end(w) - start(w) + 1
         IN  {Lin([n \in 1..days_in_week(w) |-> T(1, WorkVar(cr[i].crew_id, start(w) + n - 1))],
                  "le", days_in_week(w) - R + 1) :
                 i \in DOMAIN cr, w \in 0..(num_weeks - 1)}
    ELSE {}

(* mutant: the bound of a block shorter than R is raised to 0 *)
WeeklyRestConstraintsClamped(cr, horizon_days, R) ==
    IF R > 0
    THEN LET num_weeks == (horizon_days + WEEK_LEN - 1) \div WEEK_LEN
             start(w) == w * WEEK_LEN + 1
             end(w) == Min2((w + 1) * WEEK_LEN, horizon_days)
             days_in_week(w) == end(w) - start(w) + 1
         IN  {Lin([n \in 1..days_in_week(w) |-> T(1, WorkVar(cr[i].crew_id, start(w) + n - 1))],
                  "le", Max2(0, days_in_week(w) - R)) :
                 i \in DOMAIN cr, w \in 0..(num_weeks - 1)}
    ELSE {}

WeeklyRestConstraints(cr, horizon_days, R) ==
    IF R > 0
    THEN LET num_weeks == (horizon_days + WEEK_LEN - 1) \div WEEK_LEN
             start(w) == w * WEEK_LEN + 1
             end(w) == Min2((w + 1) * WEEK_LEN, horizon_days)
             days_in_week(w) == end(w) - start(w) + 1
         IN  {Lin([n \in 1..days_in_week(w) |-> T(1, WorkVar(cr[i].crew_id, start(w) + n - 1))],
                  "le", days_in_week(w) - R) :
                 i \in DOMAIN cr, w \in 0..(num_weeks - 1)}
    ELSE {}

(* pref_terms: penalty * work[crew_id, day] for the requests that name a work variable *)
PrefTerms(off_requests, work) ==
    Flatten([n \in DOMAIN off_requests |->
        IF <<off_requests[n].crew_id, off_requests[n].day>> \in work
        THEN <<T(off_requests[n].penalty, WorkVar(off_requests[n].crew_id, off_requests[n].day))>>
        ELSE <<>>])

KpiVars(cr, horizon_days, off_requests) ==
    <<NewIntVar(0, MaxCap(cr), SpreadVar),
      NewIntVar(0, Len(cr) * horizon_days, WorkedDaysVar),
      NewIntVar(0, SumPenalties(off_requests), PrefCostVar)>>

SpreadConstraint == Lin(<<T(1, SpreadVar), T(-1, MaxLoadVar), T(1, MinLoadVar)>>, "eq", 0)

(* mutant: worked_days is only bounded from below by the work indicators *)
WorkedDaysConstraintAtLeast(works) ==
    Lin(<<T(1, WorkedDaysVar)>> \o [n \in DOMAIN works |-> T(-1, WorkVar(works[n][1], works[n][2]))], "ge", 0)

WorkedDaysConstraint(works) ==
    Lin(<<T(1, WorkedDaysVar)>> \o [n \in DOMAIN works |-> T(-1, WorkVar(works[n][1], works[n][2]))], "eq", 0)

PrefCostConstraint(pref_terms) == Lin(<<T(1, PrefCostVar)>> \o Neg(pref_terms), "eq", 0)

(* mutant: an absent weight key counts as 0 in the objective *)
ObjectiveZeroDefaults(weights) ==
    <<T(Get(weights, "fairness_spread", 0), SpreadVar),
      T(Get(weights, "worked_days", 0), WorkedDaysVar),
      T(Get(weights, "off_request", 0), PrefCostVar)>>

Objective(weights) ==
    <<T(Get(weights, "fairness_spread", DefaultFairnessW), SpreadVar),
      T(Get(weights, "worked_days", DefaultWorkedDaysW), WorkedDaysVar),
      T(Get(weights, "off_request", DefaultPrefW), PrefCostVar)>>

BuildFailure(kind, error) ==
    [kind |-> kind, ok |-> FALSE, error |-> error, x |-> {}, work |-> {}, vars |-> <<>>,
     constraints |-> {}, has_objective |-> FALSE, objective |-> <<>>]

build_rostering_model(cr, ds, elig, confl, horizon_days, K, R, weights, off_requests) ==
    LET xs == AssignmentKeys(cr, ds, elig)
        x  == Range(xs)
        works == WorkKeys(cr, horizon_days)
        pref_terms == PrefTerms(off_requests, Range(works))
    IN  IF \E j \in DOMAIN ds : ds[j].day \notin 1..horizon_days
        THEN BuildFailure("rostering", "KeyError")     \* duties_by_day[d.day]
        ELSE IF Len(pref_terms) = 0
        THEN BuildFailure("rostering", "TypeError")    \* model.Add(0)
        ELSE
        [kind |-> "rostering",
         ok |-> TRUE,
         error |-> "",
         x |-> x,
         work |-> Range(works),
         vars |-> [i \in DOMAIN xs |-> NewBoolVar(XVar(xs[i][1], xs[i][2]))]
                  \o WorkloadVars(cr)
                  \o FairnessVars(cr)
                  \o [n \in DOMAIN works |-> NewBoolVar(WorkVar(works[n][1], works[n][2]))]
                  \o KpiVars(cr, horizon_days, off_requests),
         constraints |-> CoverageConstraints(cr, ds, x)
                         \cup ConflictConstraints(cr, confl, x)
                         \cup WorkloadConstraints(cr, ds, x)
                         \cup FairnessConstraints(cr)
                         \cup WorkConstraints(cr, ds, x, horizon_days)
                         \cup MaxConsecutiveConstraints(cr, horizon_days, K)
                         \cup WeeklyRestConstraints(cr, horizon_days, R)
                         \cup {SpreadConstraint, WorkedDaysConstraint(works), PrefCostConstraint(pref_terms)},
         has_objective |-> TRUE,
         objective |-> Objective(weights)]

-----------------------------------------------------------------------------
(* The external solver: a solution is any valuation of the model's         *)
(* variables, each within its domain, that satisfies every constraint.     *)
(* The search assigns the variables in creation order; a variable that an  *)
(* equality already determines takes only the determined value.            *)

RECURSIVE SumTerms(_, _)
SumTerms(terms, val) ==
    IF Len(terms) = 0 THEN 0
    ELSE Head(terms).coef * val[Head(terms).var] + SumTerms(Tail(terms), val)

TermVars(ct) == {ct.terms[n].var : n \in DOMAIN ct.terms}

CtVars(ct) == TermVars(ct) \cup (IF ct.kind = "lin" THEN {} ELSE {ct.target})

Holds(ct, val) ==
    CASE ct.kind = "lin" ->
            LET lhs == SumTerms(ct.terms, val)
            IN  (CASE ct.op = "eq" -> lhs = ct.rhs
                   [] ct.op = "le" -> lhs <= ct.rhs
                   [] ct.op = "ge" -> lhs >= ct.rhs)
      [] ct.kind = "max" ->
            /\ Len(ct.terms) > 0
            /\ val[ct.target] = SetMax({val[v] : v \in TermVars(ct)})
      [] ct.kind = "min" ->
            /\ Len(ct.terms) > 0
            /\ val[ct.target] = SetMin({val[v] : v \in TermVars(ct)})

(* ct determines v once every other variable of ct has a value *)
Determines(ct, v, val) ==
    /\ ct.op = "eq"
    /\ v \in CtVars(ct)
    /\ CtVars(ct) \ {v} \subseteq DOMAIN val
    /\ IF ct.kind = "lin"
       THEN /\ Cardinality({n \in DOMAIN ct.terms : ct.terms[n].var = v}) = 1
            /\ \A n \in DOMAIN ct.terms : ct.terms[n].var = v => ct.terms[n].coef \in {1, -1}
       ELSE ct.target = v /\ v \notin TermVars(ct) /\ Len(ct.terms) > 0

DeterminedValue(ct, v, val) ==
    CASE ct.kind = "lin" ->
            LET n == CHOOSE n \in DOMAIN ct.terms : ct.terms[n].var = v
                others == SelectSeq(ct.terms, LAMBDA t : t.var # v)
            IN  ct.terms[n].coef * (ct.rhs - SumTerms(others, val))
      [] ct.kind = "max" -> SetMax({val[u] : u \in TermVars(ct)})
      [] ct.kind = "min" -> SetMin({val[u] : u \in TermVars(ct)})

Candidates(m, i, val) ==
    LET v == m.vars[i].var
        dom == (m.vars[i].lo)..(m.vars[i].hi)
        det == {ct \in m.constraints : Determines(ct, v, val)}
    IN  IF det = {} THEN dom
        ELSE dom \cap {DeterminedValue(CHOOSE ct \in det : TRUE, v, val)}

(* the constraints that become checkable when v gets its value *)
Ready(m, v, val) == {ct \in m.constraints : v \in CtVars(ct) /\ CtVars(ct) \subseteq DOMAIN val}

RECURSIVE Extend(_, _, _)
Extend(m, i, val) ==
    IF i > Len(m.vars) THEN {val}
    ELSE LET v == m.vars[i].var
         IN  UNION {Extend(m, i + 1, nv) :
                      nv \in {nv \in {val @@ (v :> a) : a \in Candidates(m, i, val)} :
                                 \A ct \in Ready(m, v, nv) : Holds(ct, nv)}}

Solutions(m) ==
    IF \E ct \in m.constraints : CtVars(ct) = {} /\ ~Holds(ct, <<>>)
    THEN {}
    ELSE Extend(m, 1, <<>>)

ObjectiveValue(m, val) == SumTerms(m.objective, val)

IsOptimal(m, val, S) == \A other \in S : ObjectiveValue(m, val) <= ObjectiveValue(m, other)

Solved(st) == st \in {"OPTIMAL", "FEASIBLE"}

-----------------------------------------------------------------------------
(* Post-solve KPIs and the objective reconciler *)

(* weekly-rest shortfall per crew member and 7-day block, summed *)
weekly_rest_shortfall_total(val, cr, horizon_days, R) ==
    LET num_weeks == (horizon_days + WEEK_LEN - 1) \div WEEK_LEN
        start(w) == w * WEEK_LEN + 1
        end(w) == Min2((w + 1) * WEEK_LEN, horizon_days)
        worked(c_id, w) == Cardinality({day \in start(w)..end(w) : val[WorkVar(c_id, day)] = 1})
        rest(c_id, w) == (end(w) - start(w) + 1) - worked(c_id, w)
        shortfall(c_id, w) == IF R > 0 THEN Max2(0, R - rest(c_id, w)) ELSE 0
    IN  SumSeq(Flatten([i \in DOMAIN cr |-> [n \in 1..num_weeks |-> shortfall(cr[i].crew_id, n - 1)]]))

(* number of (crew, day) with a late duty on day and an early duty on day + 1 *)
late_to_early_total(val, cr, ds, x, horizon_days, late_thr, early_thr) ==
    LET assigned(c_id, day) == {j \in DOMAIN ds : /\ ds[j].day = day
                                                  /\ <<c_id, ds[j].duty_id>> \in x
                                                  /\ val[XVar(c_id, ds[j].duty_id)] = 1}
        late_day(c_id, day) == \E j \in assigned(c_id, day) : ds[j].end_min >= late_thr
        early_day(c_id, day) == \E j \in assigned(c_id, day) : ds[j].start_min <= early_thr
    IN  Cardinality({q \in (DOMAIN cr) \X (1..(horizon_days - 1)) :
                        late_day(cr[q[1]].crew_id, q[2]) /\ early_day(cr[q[1]].crew_id, q[2] + 1)})

objective_breakdown(val, m, weights, weekly_rest, late_to_early) ==
    LET fairness_w == Get(weights, "fairness_spread", 0)
        worked_days_w == Get(weights, "worked_days", 0)
        pref_w == Get(weights, "off_request", 0)
        weekly_rest_w == Get(weights, "weekly_rest_shortfall", 0)
        late_to_early_w == Get(weights, "late_to_early", 0)
        spread == val[MaxLoadVar] - val[MinLoadVar]
        worked_days == val[WorkedDaysVar]
        preference_cost == val[PrefCostVar]
        terms == [fairness_spread |-> [weight |-> fairness_w, value |-> spread,
                                       contribution |-> fairness_w * spread],
                  worked_days |-> [weight |-> worked_days_w, value |-> worked_days,
                                   contribution |-> worked_days_w * worked_days],
                  off_request |-> [weight |-> pref_w, value |-> preference_cost,
                                   contribution |-> pref_w * preference_cost],
                  weekly_rest_shortfall |-> [weight |-> weekly_rest_w, value |-> weekly_rest,
                                             contribution |-> weekly_rest_w * weekly_rest],
                  late_to_early |-> [weight |-> late_to_early_w, value |-> late_to_early,
                                     contribution |-> late_to_early_w * late_to_early]]
    IN  [objective_value |-> ObjectiveValue(m, val),
         objective_from_terms |-> terms.fairness_spread.contribution + terms.worked_days.contribution
                                  + terms.off_request.contribution
                                  + terms.weekly_rest_shortfall.contribution
                                  + terms.late_to_early.contribution,
         terms |-> terms]

(* run_rostering_model: obj = int(round(solver.ObjectiveValue())) differs from
   obj_terms = int(breakdown["objective_from_terms"]) *)
ObjectiveMismatch(m, val, bd) == ObjectiveValue(m, val) # bd.objective_from_terms

-----------------------------------------------------------------------------
(* The result returned by solve_instance; None is the empty tuple and a      *)
(* present number a one-element tuple                                       *)

None == <<>>

(* mutant: the recomputed total is always part of the result *)
StatusResultWithTerms(st, objective) ==
    [status |-> st, objective |-> IF Solved(st) THEN <<objective>> ELSE None,
     objective_from_terms |-> 0]

(* result = {"instance_dir", "instance_name", "status", "objective"}; the two
   instance fields name the input directory and are left out *)
StatusResult(st, objective) ==
    [status |-> st, objective |-> IF Solved(st) THEN <<objective>> ELSE None]

(* result.update({...}), result["objective_from_terms"] and the paths of the
   files written *)
KpiResult(base, val, weekly_rest, late_to_early, bd, save_solution, save_breakdown) ==
    [k \in DOMAIN base
           \cup {"spread", "worked_days", "preference_cost", "weekly_rest_shortfall",
                 "late_to_early_total", "objective_from_terms"}
           \cup (IF save_breakdown THEN {"objective_breakdown_json"} ELSE {})
           \cup (IF save_solution THEN {"solution_json"} ELSE {}) |->
        CASE k = "spread" -> <<val[MaxLoadVar] - val[MinLoadVar]>>
          [] k = "worked_days" -> <<val[WorkedDaysVar]>>
          [] k = "preference_cost" -> <<val[PrefCostVar]>>
          [] k = "weekly_rest_shortfall" -> <<weekly_rest>>
          [] k = "late_to_early_total" -> <<late_to_early>>
          [] k = "objective_from_terms" -> <<bd.objective_from_terms>>
          [] k = "objective_breakdown_json" -> "report/objective_breakdown.json"
          [] k = "solution_json" -> "solutions/rostering_solution.json"
          [] OTHER -> base[k]]

-----------------------------------------------------------------------------
(* Report frames built from a solved valuation *)

(* keys of rm.x: the assignment variables the valuation holds *)
XKeys(val) == {<<v.c, v.d>> : v \in {v \in DOMAIN val : v.k = "x"}}

(* work_matrix: crew x day, the value of work[c, day] *)
WorkMatrix(val, cr, horizon_days) ==
    [cell \in {<<cr[i].crew_id, day>> : i \in DOMAIN cr, day \in 1..horizon_days} |->
        val[WorkVar(cell[1], cell[2])]]

WeeklyRestRow(work_matrix, c_id, w, horizon_days, R) ==
    LET start == w * WEEK_LEN + 1
        end == Min2((w + 1) * WEEK_LEN, horizon_days)
        days_in_week == end - start + 1
        worked == SumSeq([n \in 1..days_in_week |-> work_matrix[<<c_id, start + n - 1>>]])
        rest == days_in_week - worked
    IN  [crew_id |-> c_id, week |-> w + 1, start_day |-> start, end_day |-> end,
         worked_days |-> worked, rest_days |-> rest, required_rest_days |-> R,
         shortfall |-> IF R > 0 THEN Max2(0, R - rest) ELSE 0]

WeeklyRestFrame(work_matrix, cr, horizon_days, R) ==
    LET num_weeks == (horizon_days + WEEK_LEN - 1) \div WEEK_LEN
        rows == Flatten([i \in DOMAIN cr |->
                    [n \in 1..num_weeks |-> WeeklyRestRow(work_matrix, cr[i].crew_id, n - 1,
                                                          horizon_days, R)]])
    IN  SortSeq(rows, LAMBDA a, b : \/ StrLess(a.crew_id, b.crew_id)
                                    \/ a.crew_id = b.crew_id /\ a.week < b.week)

OffRequestsFrame(val, off_requests) ==
    LET worked(r) == IF WorkVar(r.crew_id, r.day) \in DOMAIN val
                     THEN val[WorkVar(r.crew_id, r.day)]
                     ELSE 0
        rows == [n \in DOMAIN off_requests |->
                    [crew_id |-> off_requests[n].crew_id, day |-> off_requests[n].day,
                     penalty |-> off_requests[n].penalty, worked |-> worked(off_requests[n]),
                     cost |-> worked(off_requests[n]) * off_requests[n].penalty]]
    IN  SortSeq(rows, LAMBDA a, b : \/ StrLess(a.crew_id, b.crew_id)
                                    \/ a.crew_id = b.crew_id /\ a.day < b.day)

(* (crew_id, day) with a late duty on day and an early duty on day + 1 *)
LateToEarlyPairs(val, cr, ds, horizon_days, late_thr, early_thr) ==
    LET assigned(c_id, day) ==
            {key \in XKeys(val) :
                /\ key[1] = c_id
                /\ val[XVar(key[1], key[2])] = 1
                /\ \E j \in DOMAIN ds : ds[j].duty_id = key[2] /\ ds[j].day = day}
        duty_by_id(d_id) == ds[CHOOSE j \in DOMAIN ds : ds[j].duty_id = d_id]
        late_day(c_id, day) == \E key \in assigned(c_id, day) : duty_by_id(key[2]).end_min >= late_thr
        early_day(c_id, day) == \E key \in assigned(c_id, day) : duty_by_id(key[2]).start_min <= early_thr
    IN  Flatten([i \in DOMAIN cr |->
            Flatten([day \in 1..(horizon_days - 1) |->
                IF late_day(cr[i].crew_id, day) /\ early_day(cr[i].crew_id, day + 1)
                THEN << <<cr[i].crew_id, day>> >>
                ELSE <<>>])])

(* pass 1: an off-request row that was worked sets its cell to 2 *)
RECURSIVE OffRequestPass(_, _)
OffRequestPass(vm, rows) ==
    IF Len(rows) = 0 THEN vm
    ELSE OffRequestPass(IF Head(rows).worked = 1
                        THEN (<<Head(rows).crew_id, Head(rows).day>> :> 2) @@ vm
                        ELSE vm,
                        Tail(rows))

(* pass 2: the early day of a late->early pair becomes 3 if it is worked *)
RECURSIVE LateToEarlyPass(_, _)
LateToEarlyPass(vm, pairs) ==
    IF Len(pairs) = 0 THEN vm
    ELSE LET cell == <<Head(pairs)[1], Head(pairs)[2] + 1>>
         IN  LateToEarlyPass(IF cell \in DOMAIN vm /\ vm[cell] >= 1
                             THEN [vm EXCEPT ![cell] = 3]
                             ELSE vm,
                             Tail(pairs))

(* pass 3: the worked days of a block with shortfall become 4 *)
RECURSIVE WeeklyRestPass(_, _)
WeeklyRestPass(vm, weekly_rest) ==
    IF Len(weekly_rest) = 0 THEN vm
    ELSE LET r == Head(weekly_rest)
         IN  WeeklyRestPass(IF r.shortfall > 0
                            THEN [cell \in DOMAIN vm |->
                                     IF /\ cell[1] = r.crew_id
                                        /\ cell[2] \in r.start_day..r.end_day
                                        /\ vm[cell] >= 1
                                     THEN 4
                                     ELSE vm[cell]]
                            ELSE vm,
                            Tail(weekly_rest))

WorkloadsFrame(val, work_matrix, cr, horizon_days) ==
    LET rows == [i \in DOMAIN cr |->
                    [crew_id |-> cr[i].crew_id, role |-> cr[i].role,
                     total_minutes |-> val[TotalVar(cr[i].crew_id)],
                     worked_days |-> SumSeq([day \in 1..horizon_days |->
                                                work_matrix[<<cr[i].crew_id, day>>]])]]
    IN  SortSeq(rows, LAMBDA a, b : \/ StrLess(a.role, b.role)
                                    \/ a.role = b.role /\ StrLess(a.crew_id, b.crew_id))

(* mutant: the weekly-rest pass runs first and the off-request pass last *)
build_violation_matrix_reversed(work_matrix, weekly_rest, off_requests, late_to_early_pairs) ==
    OffRequestPass(LateToEarlyPass(WeeklyRestPass(work_matrix, weekly_rest), late_to_early_pairs),
                   off_requests)

build_violation_matrix(work_matrix, weekly_rest, off_requests, late_to_early_pairs) ==
    WeeklyRestPass(LateToEarlyPass(OffRequestPass(work_matrix, off_requests), late_to_early_pairs),
                   weekly_rest)

(* late_to_early_pairs is a local of build_report_frames, kept with the frames *)
build_report_frames(val, cr, ds, sc, off_requests) ==
    LET work_matrix == WorkMatrix(val, cr, sc.horizon_days)
        weekly_rest == WeeklyRestFrame(work_matrix, cr, sc.horizon_days, sc.min_rest_days_per_week)
        off_df == OffRequestsFrame(val, off_requests)
        late_to_early_pairs == LateToEarlyPairs(val, cr, ds, sc.horizon_days,
                                                sc.late_end_threshold_min,
                                                sc.early_start_threshold_min)
    IN  [work_matrix |-> work_matrix,
         violation_matrix |-> build_violation_matrix(work_matrix, weekly_rest, off_df,
                                                     late_to_early_pairs),
         workloads |-> WorkloadsFrame(val, work_matrix, cr, sc.horizon_days),
         weekly_rest |-> weekly_rest,
         off_requests |-> off_df,
         late_to_early_pairs |-> late_to_early_pairs]

-----------------------------------------------------------------------------
(* Instances explored *)

Bases == {"CDG", "ORY"}

AircraftTypes == {"A320", "B737"}

Cov1(r, n) == (r :> n)

Cov2(r1, n1, r2, n2) == (r1 :> n1) @@ (r2 :> n2)

CrewPool ==
    <<CrewMember("C1", "CAPT", "CDG", {"A320"}, 960),
      CrewMember("C2", "CAPT", "CDG", {"A320", "B737"}, 480),
      CrewMember("C3", "FO", "CDG", {"A320"}, 960),
      CrewMember("C4", "CAPT", "ORY", {"A320"}, 960),
      CrewMember("C5", "FO", "CDG", {"B737"}, 480)>>

DutyPool ==
    <<Duty("D1", 1, 0, 480, "CDG", "A320", Cov1("CAPT", 1)),
      Duty("D2", 1, 480, 960, "CDG", "A320", Cov2("CAPT", 1, "FO", 1)),
      Duty("D3", 1, 240, 720, "CDG", "A320", Cov1("CAPT", 2)),
      Duty("D4", 1, 960, 1440, "CDG", "A320", Cov1("CAPT", 1)),
      Duty("D5", 2, 0, 480, "CDG", "A320", Cov1("CAPT", 1)),
      Duty("D6", 2, 600, 1080, "CDG", "B737", Cov1("FO", 1))>>

(* the members of pool picked by the index set S, in pool order *)
Pick(pool, S) == LET idx == SortedSeq(S) IN [n \in DOMAIN idx |-> pool[idx[n]]]

Picks(pool, max) == {Pick(pool, S) : S \in {S \in SUBSET DOMAIN pool : Cardinality(S) \in 1..max}}

RestOptions == {0, 480, 600}

Slots == {<<0, 480>>, <<240, 720>>, <<480, 960>>, <<960, 1440>>}

WeightsFull == ("fairness_spread" :> 2) @@ ("worked_days" :> 1) @@ ("off_request" :> 1)

WeightTables ==
    {WeightsFull,
     <<>>,
     ("fairness_spread" :> 0) @@ ("off_request" :> 3),
     WeightsFull @@ ("weekly_rest_shortfall" :> 10) @@ ("late_to_early" :> 5)}

BasePrefs(cr) == <<OffRequest(cr[1].crew_id, 1, 50)>>

PrefOptions(cr) ==
    {BasePrefs(cr),
     <<>>,
     <<OffRequest(cr[1].crew_id, 1, 50), OffRequest(cr[1].crew_id, 1, 30)>>,
     <<OffRequest("C5", 1, 50), OffRequest(cr[1].crew_id, HorizonDays + 1, 40)>>,
     <<OffRequest(cr[1].crew_id, 2, 50), OffRequest(cr[Len(cr)].crew_id, 1, 20),
       OffRequest(cr[1].crew_id, 0, 10)>>}

Instance(cr, ds, sc, pr) == [crew |-> cr, duties |-> ds, scenario |-> sc, prefs |-> pr]

(* one crew member, one duty: every combination of the attributes eligibility reads *)
EligInstances ==
    {Instance(<<CrewMember("C1", role, cbase, quals, 480)>>,
              <<Duty("D1", 1, 0, 480, dbase, type, [r \in S |-> 1])>>,
              Scenario(HorizonDays, 0, HorizonDays, 0, WeightsFull),
              <<OffRequest("C1", 1, 50)>>) :
        role \in ALLOWED_ROLES, cbase \in Bases, quals \in (SUBSET AircraftTypes) \ {{}},
        dbase \in Bases, type \in AircraftTypes, S \in (SUBSET ALLOWED_ROLES) \ {{}}}

(* two duties in either list order: every combination of days, slots and rest *)
ConflictInstances ==
    {Instance(<<CrewPool[1]>>,
              <<Duty(ids[1], day1, slot1[1], slot1[2], "CDG", "A320", Cov1("CAPT", 1)),
                Duty(ids[2], day2, slot2[1], slot2[2], "CDG", "A320", Cov1("CAPT", 1))>>,
              Scenario(HorizonDays, rest, HorizonDays, 0, WeightsFull),
              <<OffRequest("C1", 1, 50)>>) :
        ids \in {<<"D1", "D2">>, <<"D2", "D1">>},
        day1 \in 1..HorizonDays, day2 \in 1..HorizonDays,
        slot1 \in Slots, slot2 \in Slots, rest \in RestOptions}

(* crew and duties picked from the pools *)
RosterInstances ==
    {Instance(cr, ds, Scenario(HorizonDays, rest, HorizonDays, 0, WeightsFull), BasePrefs(cr)) :
        cr \in Picks(CrewPool, MaxCrew), ds \in Picks(DutyPool, MaxDuties), rest \in RestOptions}

(* two fixed rosters under every combination of the scenario knobs *)
ScenarioInstances ==
    UNION {{Instance(cfg[1], cfg[2], Scenario(HorizonDays, 0, K, R, w), pr) :
                K \in {1, HorizonDays}, R \in {0, 1}, w \in WeightTables, pr \in PrefOptions(cfg[1])} :
           cfg \in {<<Pick(CrewPool, {1, 3}), Pick(DutyPool, {1, 2})>>,
                    <<Pick(CrewPool, {1, 2}), Pick(DutyPool, {1, 5})>>}}

(* instances that load but fail validate_crew or validate_duties, one rule each *)
InvalidInstances ==
    {Instance(cr, ds, Scenario(HorizonDays, 0, HorizonDays, 0, WeightsFull), <<OffRequest("C2", 1, 50)>>) :
        cr \in {<<CrewMember("C1", "PURSER", "CDG", {"A320"}, 960), CrewPool[2]>>,
                <<CrewMember("C1", "CAPT", "CDG", {"A320"}, 0), CrewPool[2]>>,
                <<CrewMember("C1", "CAPT", "CDG", {}, 960), CrewPool[2]>>},
        ds \in {<<DutyPool[1]>>}}
    \cup
    {Instance(Pick(CrewPool, {1, 2}), <<d>>, Scenario(HorizonDays, 0, HorizonDays, 0, WeightsFull),
              <<OffRequest("C2", 1, 50)>>) :
        d \in {Duty("D1", HorizonDays + 1, 0, 480, "CDG", "A320", Cov1("CAPT", 1)),
               Duty("D1", 0, 0, 480, "CDG", "A320", Cov1("CAPT", 1)),
               Duty("D1", 1, 480, 480, "CDG", "A320", Cov1("CAPT", 1)),
               Duty("D1", 1, 0, 480, "CDG", "A320", <<>>),
               Duty("D1", 1, 0, 480, "CDG", "A320", Cov1("CAPT", 0)),
               Duty("D1", 1, 0, 480, "CDG", "A320", Cov2("CAPT", 1, "PURSER", 1))}}

(* duty lists for validate_duties: every combination of day, times and
   coverage around the accepted ranges, and lists of two duties with the same
   or different ids *)
ValidationDuties ==
    {Duty("D1", day, se[1], se[2], "CDG", "A320", cov) :
        day \in {0, 1, HorizonDays, HorizonDays + 1},
        se \in {<<0, 480>>, <<0, 1440>>, <<1380, 1440>>, <<0 - 60, 480>>, <<480, 480>>, <<480, 240>>,
                <<960, 1500>>, <<1440, 1440>>, <<1440, 1500>>},
        cov \in {Cov1("CAPT", 1), Cov2("FO", 1, "FA", 2), <<>>, Cov1("CAPT", 0), Cov1("FA", 0 - 1),
                 Cov2("CAPT", 1, "PURSER", 1)}}

ValidationInstances ==
    {Instance(Pick(CrewPool, {1, 2}), ds, Scenario(HorizonDays, 0, HorizonDays, 0, WeightsFull),
              <<OffRequest("C2", 1, 50)>>) :
        ds \in {<<d>> : d \in ValidationDuties}
               \cup {<<DutyPool[1], DutyPool[1]>>, <<DutyPool[1], DutyPool[4]>>,
                     <<DutyPool[1], Duty("D1", HorizonDays, 480, 960, "CDG", "A320", Cov1("FO", 1))>>}}

(* a horizon of more than one 7-day block, the last one shorter *)
WeekHorizon == WEEK_LEN + HorizonDays

WeekCrew ==
    <<CrewMember("C1", "CAPT", "CDG", {"A320"}, 1440), CrewPool[2]>>

WeekDuties ==
    <<Duty("D1", WEEK_LEN, 0, 480, "CDG", "A320", Cov1("CAPT", 1)),
      Duty("D2", WEEK_LEN + 1, 0, 480, "CDG", "A320", Cov1("CAPT", 1)),
      Duty("D3", WEEK_LEN + 2, 0, 480, "CDG", "A320", Cov1("CAPT", 1))>>

WeeklyInstances ==
    {Instance(cr, WeekDuties, Scenario(WeekHorizon, 0, K, R, WeightsFull), BasePrefs(cr)) :
        cr \in {Pick(WeekCrew, {1}), WeekCrew}, K \in {HorizonDays, WeekHorizon}, R \in {0, 1, 2}}

(* one captain, one first officer, one duty that needs one of each *)
SpreadOnly == ("fairness_spread" :> 100) @@ ("worked_days" :> 0) @@ ("off_request" :> 0)

PairCrew == <<CrewPool[1], CrewMember("C2", "FO", "CDG", {"A320"}, 960)>>

PairInstances ==
    {Instance(PairCrew, Pick(DutyPool, {2}), Scenario(HorizonDays, 0, HorizonDays, 0, w), pr) :
        w \in {SpreadOnly, ("fairness_spread" :> 100)},
        pr \in {<<>>, BasePrefs(PairCrew)}}

(* one captain on a late duty and on an early duty the next day, under weight
   tables that name the late_to_early term *)
LateEarlyInstances ==
    {Instance(Pick(CrewPool, {1}), Pick(DutyPool, {4, 5}),
              Scenario(HorizonDays, 0, HorizonDays, 0, w), BasePrefs(CrewPool)) :
        w \in {WeightsFull @@ ("late_to_early" :> 5),
               ("fairness_spread" :> 2) @@ ("off_request" :> 1) @@ ("late_to_early" :> 5)}}

(* horizons whose last block is a single day, with no duty or one duty on day 1 *)
ShortBlockInstances ==
    {Instance(cr, ds, Scenario(h, 0, h, R, WeightsFull), BasePrefs(cr)) :
        cr \in {Pick(WeekCrew, {1}), WeekCrew},
        ds \in {<<>>, Pick(DutyPool, {1})},
        h \in {1, WEEK_LEN + 1},
        R \in {1, 2, 3}}

Instances ==
    EligInstances \cup ConflictInstances \cup RosterInstances \cup ScenarioInstances
    \cup InvalidInstances \cup WeeklyInstances \cup PairInstances \cup LateEarlyInstances
    \cup ShortBlockInstances

(* Valuations handed to build_report_frames: any set of assignments of the
   first crew member, with the work indicators and minutes that go with it *)
ReportDuties ==
    <<Duty("D1", 1, 960, 1440, "CDG", "A320", Cov1("CAPT", 1)),
      Duty("D2", 2, 0, 480, "CDG", "A320", Cov1("CAPT", 1)),
      Duty("D3", WEEK_LEN + 1, 960, 1440, "CDG", "A320", Cov1("CAPT", 1)),
      Duty("D4", WEEK_LEN + 2, 0, 480, "CDG", "A320", Cov1("CAPT", 1))>>

ReportPrefs ==
    {<<>>,
     <<OffRequest("C1", 2, 50)>>,
     <<OffRequest("C1", WEEK_LEN + 2, 50), OffRequest("C1", 1, 10), OffRequest("C1", 2, 30),
       OffRequest("C2", 1, 10)>>,
     <<OffRequest("C1", 0, 50), OffRequest("C5", 1, 10), OffRequest("C1", WEEK_LEN + 1, 20)>>}

Valuation(cr, ds, horizon_days, A) ==
    LET on(c_id, j) == IF c_id = cr[1].crew_id /\ j \in A THEN 1 ELSE 0
        xv == [v \in {XVar(cr[i].crew_id, ds[j].duty_id) : i \in DOMAIN cr, j \in DOMAIN ds} |->
                  on(v.c, CHOOSE j \in DOMAIN ds : ds[j].duty_id = v.d)]
        wv == [v \in {WorkVar(cr[i].crew_id, day) : i \in DOMAIN cr, day \in 1..horizon_days} |->
                  IF \E j \in DOMAIN ds : ds[j].day = v.day /\ on(v.c, j) = 1 THEN 1 ELSE 0]
        tv == [v \in {TotalVar(cr[i].crew_id) : i \in DOMAIN cr} |->
                  SumSeq([j \in DOMAIN ds |-> on(v.c, j) * duration_min(ds[j])])]
    IN  xv @@ wv @@ tv

ReportInstances ==
    {[inst |-> Instance(cr, ReportDuties, Scenario(WeekHorizon, 0, WeekHorizon, R, WeightsFull), pr),
      val |-> Valuation(cr, ReportDuties, WeekHorizon, A)] :
        cr \in {Pick(WeekCrew, {1}), WeekCrew}, R \in {0, 1, 2}, pr \in ReportPrefs,
        A \in SUBSET DOMAIN ReportDuties}

-----------------------------------------------------------------------------
(* The pipeline *)

NoModel == BuildFailure("none", "")

(* the programs that load an instance *)
Entries == {"solve_instance", "run_rostering_model", "run_feasibility_roster", "inspect_instance"}

Init ==
    /\ \/ /\ entry \in Entries \cup {"check_aggregate_coverage_feasibility"}
          /\ \E inst \in (IF entry = "inspect_instance"
                          THEN Instances \cup ValidationInstances
                          ELSE Instances) :
                /\ crew = inst.crew
                /\ duties = inst.duties
                /\ scenario = inst.scenario
                /\ prefs = inst.prefs
          /\ status = "NONE"
          /\ sol = <<>>
          /\ pc = "loaded"
       \/ /\ entry = "build_report_frames"
          /\ \E r \in ReportInstances :
                /\ crew = r.inst.crew
                /\ duties = r.inst.duties
                /\ scenario = r.inst.scenario
                /\ prefs = r.inst.prefs
                /\ sol = r.val
          /\ status = "FEASIBLE"
          /\ pc = "valuation"
    /\ eligible = <<>>
    /\ conflicts = <<>>
    /\ issues = <<>>
    /\ cpm = NoModel
    /\ breakdown = <<>>
    /\ result = None
    /\ files = {}
    /\ frames = <<>>
    /\ warnings = {}
    /\ aggregate_issues = <<>>

(* inspect_instance: validate_crew, validate_duties *)
ValidateInstance ==
    /\ entry = "inspect_instance"
    /\ pc = "loaded"
    /\ pc' = IF /\ validate_crew(crew) = "ok"
                /\ validate_duties(duties, scenario.horizon_days) = "ok"
             THEN "validated"
             ELSE "invalid"
    /\ UNCHANGED <<entry, crew, duties, scenario, prefs, eligible, conflicts, issues, cpm, status,
                   sol, breakdown, result, files, frames, warnings,
                   aggregate_issues>>

ComputeEligibility ==
    /\ entry \in {"solve_instance", "run_rostering_model", "run_feasibility_roster"}
    /\ pc = "loaded"
    /\ eligible' = compute_eligibility(crew, duties)
    /\ pc' = "eligible"
    /\ UNCHANGED <<entry, crew, duties, scenario, prefs, conflicts, issues, cpm, status, sol,
                   breakdown, result, files, frames, warnings,
                   aggregate_issues>>

ComputeConflictPairs ==
    /\ pc = "eligible"
    /\ conflicts' = compute_conflict_pairs(duties, scenario.min_rest_minutes)
    /\ pc' = "preprocessed"
    /\ UNCHANGED <<entry, crew, duties, scenario, prefs, eligible, issues, cpm, status, sol,
                   breakdown, result, files, frames, warnings,
                   aggregate_issues>>

(* run_rostering_model: the coverage pre-check; main returns when it finds issues *)
CheckCoverageFeasibility ==
    /\ entry = "run_rostering_model"
    /\ pc = "preprocessed"
    /\ issues' = check_coverage_feasibility(crew, duties, eligible)
    /\ pc' = IF Len(issues') > 0 THEN "aborted" ELSE "checked"
    /\ UNCHANGED <<entry, crew, duties, scenario, prefs, eligible, conflicts, cpm, status, sol,
                   breakdown, result, files, frames, warnings,
                   aggregate_issues>>

BuildFeasibilityModel ==
    /\ entry = "run_feasibility_roster"
    /\ pc = "preprocessed"
    /\ cpm' = build_feasibility_model(crew, duties, eligible, conflicts)
    /\ pc' = "built"
    /\ UNCHANGED <<entry, crew, duties, scenario, prefs, eligible, conflicts, issues, status, sol,
                   breakdown, result, files, frames, warnings,
                   aggregate_issues>>

(* solve_instance builds straight after preprocessing, run_rostering_model
   after its pre-check *)
BuildRosteringModel ==
    /\ \/ entry = "solve_instance" /\ pc = "preprocessed"
       \/ entry = "run_rostering_model" /\ pc = "checked"
    /\ cpm' = build_rostering_model(crew, duties, eligible, conflicts, scenario.horizon_days,
                                    scenario.max_consecutive_work_days,
                                    scenario.min_rest_days_per_week, scenario.weights, prefs)
    /\ pc' = IF cpm'.ok THEN "built" ELSE "error"
    /\ UNCHANGED <<entry, crew, duties, scenario, prefs, eligible, conflicts, issues, status, sol,
                   breakdown, result, files, frames, warnings,
                   aggregate_issues>>

(* solver.Solve(model): an optimal solution, any solution found before the time
   limit, INFEASIBLE when there is none, UNKNOWN when the limit leaves no incumbent *)
Solve ==
    /\ pc = "built"
    /\ LET S == Solutions(cpm)
       IN  \/ /\ S = {}
              /\ status' = "INFEASIBLE"
              /\ sol' = <<>>
           \/ \E s \in S :
                 /\ sol' = s
                 /\ status' \in (IF IsOptimal(cpm, s, S) THEN {"OPTIMAL", "FEASIBLE"} ELSE {"FEASIBLE"})
           \/ /\ status' = "UNKNOWN"
              /\ sol' = <<>>
    /\ pc' = "solved"
    /\ UNCHANGED <<entry, crew, duties, scenario, prefs, eligible, conflicts, issues, cpm,
                   breakdown, result, files, frames, warnings,
                   aggregate_issues>>

(* status not in (OPTIMAL, FEASIBLE): solve_instance returns the status-only
   result, the scripts print and return *)
ReturnNoSolution ==
    /\ pc = "solved"
    /\ ~Solved(status)
    /\ result' = IF entry = "solve_instance" THEN StatusResult(status, 0) ELSE None
    /\ pc' = "returned"
    /\ UNCHANGED <<entry, crew, duties, scenario, prefs, eligible, conflicts, issues, cpm, status,
                   sol, breakdown, files, frames, warnings,
                   aggregate_issues>>

(* run_feasibility_roster: the assignments are saved *)
SaveFeasibleRoster ==
    /\ entry = "run_feasibility_roster"
    /\ pc = "solved"
    /\ Solved(status)
    /\ files' = {"solutions/feasible_roster.json"}
    /\ pc' = "saved"
    /\ UNCHANGED <<entry, crew, duties, scenario, prefs, eligible, conflicts, issues, cpm, status,
                   sol, breakdown, result, frames, warnings,
                   aggregate_issues>>

(* the KPIs, the objective breakdown and the files of a solved rostering model *)
ObjectiveBreakdown ==
    /\ pc = "solved"
    /\ cpm.kind = "rostering"
    /\ Solved(status)
    /\ LET weekly_rest == weekly_rest_shortfall_total(sol, crew, scenario.horizon_days,
                                                      scenario.min_rest_days_per_week)
           late_to_early == late_to_early_total(sol, crew, duties, cpm.x, scenario.horizon_days,
                                                scenario.late_end_threshold_min,
                                                scenario.early_start_threshold_min)
           bd == objective_breakdown(sol, cpm, scenario.weights, weekly_rest, late_to_early)
       IN  /\ breakdown' = bd
           /\ warnings' = IF entry = "run_rostering_model" /\ ObjectiveMismatch(cpm, sol, bd)
                          THEN {"WARNING: objective mismatch"}
                          ELSE {}
           /\ \E save_solution, save_breakdown \in
                    (IF entry = "solve_instance" THEN BOOLEAN ELSE {TRUE}) :
                    /\ result' = IF entry = "solve_instance"
                                 THEN KpiResult(StatusResult(status, ObjectiveValue(cpm, sol)), sol,
                                                weekly_rest, late_to_early, bd,
                                                save_solution, save_breakdown)
                                 ELSE None
                    /\ files' = (IF save_breakdown THEN {"report/objective_breakdown.json"} ELSE {})
                                \cup (IF save_solution THEN {"solutions/rostering_solution.json"} ELSE {})
    /\ pc' = "reported"
    /\ UNCHANGED <<entry, crew, duties, scenario, prefs, eligible, conflicts, issues, cpm, status,
                   sol, frames,
                   aggregate_issues>>

(* build_report_frames, called by run_rostering_model after the breakdown *)
BuildReportFrames ==
    /\ \/ entry = "run_rostering_model" /\ pc = "reported"
       \/ entry = "build_report_frames" /\ pc = "valuation"
    /\ frames' = build_report_frames(sol, crew, duties, scenario, prefs)
    /\ pc' = "framed"
    /\ UNCHANGED <<entry, crew, duties, scenario, prefs, eligible, conflicts, issues, cpm, status,
                   sol, breakdown, result, files, warnings,
                   aggregate_issues>>

(* check_aggregate_coverage_feasibility(crew, duties) on a loaded instance; no
   entry point of the repository calls it *)
CheckAggregateCoverageFeasibility ==
    /\ entry = "check_aggregate_coverage_feasibility"
    /\ pc = "loaded"
    /\ aggregate_issues' = check_aggregate_coverage_feasibility(crew, duties)
    /\ pc' = "aggregated"
    /\ UNCHANGED <<entry, crew, duties, scenario, prefs, eligible, conflicts, issues, cpm, status,
                   sol, breakdown, result, files, frames, warnings>>

Next ==
    \/ ValidateInstance
    \/ ComputeEligibility
    \/ ComputeConflictPairs
    \/ CheckCoverageFeasibility
    \/ BuildFeasibilityModel
    \/ BuildRosteringModel
    \/ Solve
    \/ ReturnNoSolution
    \/ SaveFeasibleRoster
    \/ ObjectiveBreakdown
    \/ BuildReportFrames
    \/ CheckAggregateCoverageFeasibility

Spec == Init /\ [][Next]_vars

-----------------------------------------------------------------------------
(* Vocabulary of the properties *)

(* the program has run compute_eligibility / compute_conflict_pairs *)
EligibilityDone == entry \in Entries \ {"inspect_instance"} /\ pc # "loaded"

ConflictsDone == EligibilityDone /\ pc # "eligible"

(* the solver returned a solution of the built model *)
HasSolution == pc \in {"solved", "saved", "reported", "framed"} /\ Solved(status) /\ cpm.ok

(* solver.Value(x[c, d]) = 1; a pair without a variable is not assigned *)
Assigned(c_id, d_id) == XVar(c_id, d_id) \in DOMAIN sol /\ sol[XVar(c_id, d_id)] = 1

CrewOfRoleOn(role, d_id) ==
    {i \in DOMAIN crew : crew[i].role = role /\ Assigned(crew[i].crew_id, d_id)}

(* a duty's interval on the absolute timeline *)
AbsFrom(d) == (d.day - 1) * 1440 + d.start_min

AbsTo(d) == (d.day - 1) * 1440 + d.end_min

Overlapping(d1, d2) == Max2(AbsFrom(d1), AbsFrom(d2)) < Min2(AbsTo(d1), AbsTo(d2))

(* from the end of the earlier duty to the start of the later one *)
GapBetween(d1, d2) == Max2(AbsFrom(d1), AbsFrom(d2)) - Min2(AbsTo(d1), AbsTo(d2))

TooClose(d1, d2, rest) == Overlapping(d1, d2) \/ GapBetween(d1, d2) < rest

-----------------------------------------------------------------------------
(* C1: in every solution of either model, for every duty d and every role r
   of d.coverage, the number of crew members of role r assigned to d is
   exactly d.coverage[r]. *)
C1_CoverageExact ==
    HasSolution =>
        \A j \in DOMAIN duties : \A role \in DOMAIN duties[j].coverage :
            Cardinality(CrewOfRoleOn(role, duties[j].duty_id)) = duties[j].coverage[role]

(* a solved feasibility model in which a duty needs one crew member of a role
   and leaves another eligible crew member of that role unassigned *)
C1_Witness ==
    /\ HasSolution
    /\ cpm.kind = "feasibility"
    /\ \E j \in DOMAIN duties : \E role \in DOMAIN duties[j].coverage :
          /\ duties[j].coverage[role] = 1
          /\ Cardinality(CrewOfRoleOn(role, duties[j].duty_id)) = 1
          /\ \E i \in DOMAIN crew :
                /\ crew[i].role = role
                /\ eligible[<<crew[i].crew_id, duties[j].duty_id>>]
                /\ ~Assigned(crew[i].crew_id, duties[j].duty_id)

-----------------------------------------------------------------------------
(* C2: in every solution of either model no crew member is assigned to both
   duties of a pair returned by compute_conflict_pairs, so no crew member
   works two duties that overlap or are less than min_rest_minutes apart. *)
C2_NoConflictingAssignments ==
    HasSolution =>
        /\ \A i \in DOMAIN crew : \A k \in DOMAIN conflicts :
              ~(Assigned(crew[i].crew_id, conflicts[k][1]) /\ Assigned(crew[i].crew_id, conflicts[k][2]))
        /\ \A i \in DOMAIN crew : \A j1, j2 \in DOMAIN duties :
              (/\ j1 # j2
               /\ Assigned(crew[i].crew_id, duties[j1].duty_id)
               /\ Assigned(crew[i].crew_id, duties[j2].duty_id))
              => ~TooClose(duties[j1], duties[j2], scenario.min_rest_minutes)

(* a solved rostering model with a conflicting pair whose two duties are both
   open to one crew member, who takes one of them *)
C2_Witness ==
    /\ HasSolution
    /\ cpm.kind = "rostering"
    /\ \E i \in DOMAIN crew : \E k \in DOMAIN conflicts :
          /\ <<crew[i].crew_id, conflicts[k][1]>> \in cpm.x
          /\ <<crew[i].crew_id, conflicts[k][2]>> \in cpm.x
          /\ Assigned(crew[i].crew_id, conflicts[k][1])

-----------------------------------------------------------------------------
(* C3: compute_eligibility has a key for every (crew, duty) pair and the value
   for (c, d) is true exactly when c.role is a key of d.coverage, the bases
   are equal and d.aircraft_type is one of c.qualified_types. *)
C3_EligibilityExact ==
    EligibilityDone =>
        /\ DOMAIN eligible = {<<crew[i].crew_id, duties[j].duty_id>> : i \in DOMAIN crew, j \in DOMAIN duties}
        /\ \A i \in DOMAIN crew : \A j \in DOMAIN duties :
              eligible[<<crew[i].crew_id, duties[j].duty_id>>]
              = (/\ \E r \in DOMAIN duties[j].coverage : r = crew[i].role
                 /\ crew[i].base = duties[j].base
                 /\ \E ty \in crew[i].qualified_types : ty = duties[j].aircraft_type)

(* eligibility computed for a pair that fails on the base alone, next to a pair
   of the same instance or another that passes *)
C3_Witness ==
    /\ pc = "eligible"
    /\ \E i \in DOMAIN crew : \E j \in DOMAIN duties :
          /\ crew[i].role \in DOMAIN duties[j].coverage
          /\ duties[j].aircraft_type \in crew[i].qualified_types
          /\ crew[i].base # duties[j].base
          /\ eligible[<<crew[i].crew_id, duties[j].duty_id>>] = FALSE
    /\ \E i \in DOMAIN crew : \E j \in DOMAIN duties : eligible[<<crew[i].crew_id, duties[j].duty_id>>]

-----------------------------------------------------------------------------
(* C4: duties_conflict is true exactly when, on the absolute timeline, the two
   intervals overlap or the gap from the end of the earlier duty to the start
   of the later one is strictly less than min_rest_minutes; it is applied, in
   list order, to every pair of the duty list. *)
C4_ConflictExact ==
    ConflictsDone =>
        \A j1, j2 \in DOMAIN duties :
            j1 < j2 =>
                /\ (\E k \in DOMAIN conflicts : conflicts[k] = <<duties[j1].duty_id, duties[j2].duty_id>>)
                   = TooClose(duties[j1], duties[j2], scenario.min_rest_minutes)
                /\ duties_conflict(duties[j2], duties[j1], scenario.min_rest_minutes)
                   = TooClose(duties[j1], duties[j2], scenario.min_rest_minutes)

(* conflicts computed for two duties on different days whose gap equals
   min_rest_minutes exactly: no conflict *)
C4_Witness ==
    /\ pc = "preprocessed"
    /\ Len(duties) = 2
    /\ duties[1].day # duties[2].day
    /\ scenario.min_rest_minutes > 0
    /\ GapBetween(duties[1], duties[2]) = scenario.min_rest_minutes
    /\ conflicts = <<>>

-----------------------------------------------------------------------------
(* C5: every pair returned by compute_conflict_pairs has the smaller duty id
   first, whatever the order of the duty list. *)
C5_PairsCanonical ==
    ConflictsDone =>
        \A k \in DOMAIN conflicts : StrLess(conflicts[k][1], conflicts[k][2])

-----------------------------------------------------------------------------
(* C6: assignment variables exist only for eligible pairs: every key of x is
   eligible, every assignment variable the solver values belongs to an
   eligible pair, and so does every assigned pair. *)
C6_OnlyEligibleVariables ==
    /\ (pc \in {"built", "solved", "saved", "returned", "reported", "framed"} /\ cpm.ok) =>
          \A key \in cpm.x : key \in DOMAIN eligible /\ eligible[key]
    /\ HasSolution =>
          \A v \in DOMAIN sol :
              v.k = "x" => (<<v.c, v.d>> \in DOMAIN eligible /\ eligible[<<v.c, v.d>>])

(* a solved duty that a crew member of a required role cannot take because of
   base or aircraft type, and which another crew member takes *)
C6_Witness ==
    /\ HasSolution
    /\ \E i \in DOMAIN crew : \E j \in DOMAIN duties :
          /\ crew[i].role \in DOMAIN duties[j].coverage
          /\ ~eligible[<<crew[i].crew_id, duties[j].duty_id>>]
          /\ XVar(crew[i].crew_id, duties[j].duty_id) \notin DOMAIN sol
          /\ \E i2 \in DOMAIN crew : Assigned(crew[i2].crew_id, duties[j].duty_id)

-----------------------------------------------------------------------------
(* C7: in every solution of the rostering model, work[c, day] = 1 exactly when
   c is assigned to at least one duty of that day, for every day of the
   horizon; with no eligible duty that day it is 0. *)
C7_WorkIndicatorExact ==
    (HasSolution /\ cpm.kind = "rostering") =>
        \A i \in DOMAIN crew : \A day \in 1..scenario.horizon_days :
            /\ sol[WorkVar(crew[i].crew_id, day)] \in {0, 1}
            /\ (sol[WorkVar(crew[i].crew_id, day)] = 1)
               = (\E j \in DOMAIN duties : duties[j].day = day /\ Assigned(crew[i].crew_id, duties[j].duty_id))
            /\ (\A j \in DOMAIN duties :
                   duties[j].day = day => ~eligible[<<crew[i].crew_id, duties[j].duty_id>>])
               => sol[WorkVar(crew[i].crew_id, day)] = 0

(* a solution in which one crew member works two duties of one day and another
   crew member, eligible that day, works none *)
C7_Witness ==
    /\ HasSolution
    /\ cpm.kind = "rostering"
    /\ \E i \in DOMAIN crew : \E j1, j2 \in DOMAIN duties :
          /\ j1 # j2
          /\ duties[j1].day = duties[j2].day
          /\ Assigned(crew[i].crew_id, duties[j1].duty_id)
          /\ Assigned(crew[i].crew_id, duties[j2].duty_id)
          /\ sol[WorkVar(crew[i].crew_id, duties[j1].day)] = 1
    /\ \E i \in DOMAIN crew : \E j \in DOMAIN duties :
          /\ eligible[<<crew[i].crew_id, duties[j].duty_id>>]
          /\ sol[WorkVar(crew[i].crew_id, duties[j].day)] = 0

-----------------------------------------------------------------------------
(* C8: in every solution of the rostering model total_minutes[c] is the sum of
   duration_min over the duties assigned to c and is at most c.max_minutes. *)
AssignedMinutes(c_id) ==
    SumSeq(Flatten([j \in DOMAIN duties |->
        IF Assigned(c_id, duties[j].duty_id)
        THEN <<duties[j].end_min - duties[j].start_min>>
        ELSE <<>>]))

C8_TotalMinutesExact ==
    (HasSolution /\ cpm.kind = "rostering") =>
        \A i \in DOMAIN crew :
            /\ sol[TotalVar(crew[i].crew_id)] = AssignedMinutes(crew[i].crew_id)
            /\ sol[TotalVar(crew[i].crew_id)] <= crew[i].max_minutes

(* a solution in which a crew member carries two duties, and one in which a
   crew member is eligible for more minutes than the cap allows *)
C8_Witness ==
    /\ HasSolution
    /\ cpm.kind = "rostering"
    /\ \E i \in DOMAIN crew :
          /\ Cardinality({j \in DOMAIN duties : Assigned(crew[i].crew_id, duties[j].duty_id)}) = 2
          /\ sol[TotalVar(crew[i].crew_id)] = 960
    /\ \E i \in DOMAIN crew :
          /\ Cardinality({j \in DOMAIN duties : <<crew[i].crew_id, duties[j].duty_id>> \in cpm.x}) = 2
          /\ crew[i].max_minutes = 480

-----------------------------------------------------------------------------
(* C9: in every solution of the rostering model with non-empty crew, max_load
   and min_load are the maximum and the minimum of total_minutes over the crew,
   spread = max_load - min_load, and all three lie in 0..max(max_minutes). *)
C9_FairnessExact ==
    (HasSolution /\ cpm.kind = "rostering" /\ Len(crew) > 0) =>
        LET loads == {sol[TotalVar(crew[i].crew_id)] : i \in DOMAIN crew}
            cap == SetMax({crew[i].max_minutes : i \in DOMAIN crew})
        IN  /\ sol[MaxLoadVar] \in loads /\ \A l \in loads : l <= sol[MaxLoadVar]
            /\ sol[MinLoadVar] \in loads /\ \A l \in loads : l >= sol[MinLoadVar]
            /\ sol[SpreadVar] = sol[MaxLoadVar] - sol[MinLoadVar]
            /\ \A v \in {sol[MaxLoadVar], sol[MinLoadVar], sol[SpreadVar]} : 0 <= v /\ v <= cap

(* a solution with two crew members of different loads *)
C9_Witness ==
    /\ HasSolution
    /\ cpm.kind = "rostering"
    /\ Len(crew) = 2
    /\ sol[TotalVar(crew[1].crew_id)] # sol[TotalVar(crew[2].crew_id)]
    /\ sol[SpreadVar] > 0

-----------------------------------------------------------------------------
(* C10: for every OPTIMAL or FEASIBLE solve, the total recomputed by
   objective_breakdown equals the objective value the solver reports for the
   model built from the same weight table. *)
C10_ObjectiveReconciles ==
    pc = "reported" => breakdown.objective_from_terms = breakdown.objective_value

-----------------------------------------------------------------------------
(* C11: check_coverage_feasibility returns exactly one issue for each (duty,
   required role) whose number of eligible crew of that role is strictly less
   than the required count, carrying that required count and that eligible
   count, and no issue for any other (duty, role). *)
EligibleOfRole(role, d) ==
    {i \in DOMAIN crew : crew[i].role = role /\ eligible[<<crew[i].crew_id, d.duty_id>>]}

C11_CoverageIssuesExact ==
    (entry = "run_rostering_model" /\ ConflictsDone /\ pc # "preprocessed") =>
        /\ \A j \in DOMAIN duties : \A role \in DOMAIN duties[j].coverage :
              LET hits == {k \in DOMAIN issues : /\ issues[k].duty_id = duties[j].duty_id
                                                 /\ issues[k].role = role}
                  n == Cardinality(EligibleOfRole(role, duties[j]))
              IN  IF n < duties[j].coverage[role]
                  THEN /\ Cardinality(hits) = 1
                       /\ \A k \in hits : /\ issues[k].required = duties[j].coverage[role]
                                          /\ issues[k].eligible_count = n
                  ELSE hits = {}
        /\ \A k \in DOMAIN issues : \E j \in DOMAIN duties :
              /\ issues[k].duty_id = duties[j].duty_id
              /\ issues[k].role \in DOMAIN duties[j].coverage

(* the pre-check has run on two duties: the one that needs two captains has a
   single eligible captain and is the only issue, the other duty has none *)
C11_Witness ==
    /\ entry = "run_rostering_model"
    /\ pc = "aborted"
    /\ Len(duties) = 2
    /\ Len(issues) = 1
    /\ issues[1].role = "CAPT"
    /\ issues[1].required = 2
    /\ issues[1].eligible_count = 1

-----------------------------------------------------------------------------
(* C12: whenever check_coverage_feasibility or
   check_aggregate_coverage_feasibility returns a non-empty issue list for an
   instance, the model built for that instance has no solution. *)
C12_IssuesImplyInfeasible ==
    HasSolution =>
        /\ Len(check_coverage_feasibility(crew, duties, eligible)) = 0
        /\ Len(check_aggregate_coverage_feasibility(crew, duties)) = 0

-----------------------------------------------------------------------------
(* C13: the solve orchestrator runs the coverage pre-check before model
   construction and aborts on any issue: build_rostering_model is never called
   for an instance whose pre-check reports an issue. *)
C13_PrecheckBeforeBuild ==
    (entry \in {"solve_instance", "run_rostering_model"} /\ cpm.kind = "rostering") =>
        Len(check_coverage_feasibility(crew, duties, eligible)) = 0

-----------------------------------------------------------------------------
(* C14: when the solver status is neither OPTIMAL nor FEASIBLE, solve_instance
   returns a status-only result: the status and a null objective, none of the
   KPI fields, and no solution or breakdown file is written. *)
KpiFields ==
    {"spread", "worked_days", "preference_cost", "weekly_rest_shortfall", "late_to_early_total",
     "objective_from_terms"}

C14_StatusOnlyResult ==
    (entry = "solve_instance" /\ pc \in {"returned", "reported"} /\ ~Solved(status)) =>
        /\ pc = "returned"
        /\ "status" \in DOMAIN result /\ result.status = status
        /\ "objective" \in DOMAIN result /\ result.objective = None
        /\ DOMAIN result \cap KpiFields = {}
        /\ DOMAIN result \cap {"solution_json", "objective_breakdown_json"} = {}
        /\ files = {}

(* solve_instance has returned for a model without solution *)
C14_Witness ==
    /\ entry = "solve_instance"
    /\ pc = "returned"
    /\ status = "INFEASIBLE"
    /\ cpm.kind = "rostering"
    /\ result.status = "INFEASIBLE"
    /\ files = {}

-----------------------------------------------------------------------------
(* C15: an instance that fails load-time validation stops processing before
   any model is built: no run reaches build_rostering_model or
   build_feasibility_model with such an instance. *)
C15_InvalidNeverBuilt ==
    cpm.kind # "none" =>
        /\ validate_crew(crew) = "ok"
        /\ validate_duties(duties, scenario.horizon_days) = "ok"

-----------------------------------------------------------------------------
(* C16: when K = max_consecutive_work_days < horizon_days, in every solution
   of the rostering model every crew member works at most K days in every
   window of K + 1 consecutive days of the horizon; when K >= horizon_days the
   model holds no such constraint: its only upper bounds on sums of work
   indicators are the weekly-rest ones. *)
WorkedIn(c_id, days) == Cardinality({day \in days : sol[WorkVar(c_id, day)] = 1})

BlockDays(w, horizon_days) == (w * 7 + 1)..Min2((w + 1) * 7, horizon_days)

WorkSumBounds == {ct \in cpm.constraints : /\ ct.kind = "lin"
                                            /\ ct.op = "le"
                                            /\ \A v \in TermVars(ct) : v.k = "work"}

C16_MaxConsecutive ==
    LET K == scenario.max_consecutive_work_days
        H == scenario.horizon_days
    IN  /\ (HasSolution /\ cpm.kind = "rostering" /\ K < H) =>
              \A i \in DOMAIN crew : \A start_day \in 1..(H - K) :
                  WorkedIn(crew[i].crew_id, start_day..(start_day + K)) <= K
        /\ (cpm.kind = "rostering" /\ cpm.ok /\ K >= H) =>
              \A ct \in WorkSumBounds :
                  /\ scenario.min_rest_days_per_week > 0
                  /\ \E i \in DOMAIN crew : \E w \in 0..(H \div 7) :
                        TermVars(ct) = {WorkVar(crew[i].crew_id, day) : day \in BlockDays(w, H)}

(* a solution in which a crew member with an eligible duty on each day of a
   window of K + 1 days works exactly K of them *)
C16_Witness ==
    LET K == scenario.max_consecutive_work_days
        H == scenario.horizon_days
    IN  /\ HasSolution
        /\ cpm.kind = "rostering"
        /\ K < H
        /\ \E i \in DOMAIN crew : \E start_day \in 1..(H - K) :
              /\ WorkedIn(crew[i].crew_id, start_day..(start_day + K)) = K
              /\ \A day \in start_day..(start_day + K) :
                    \E j \in DOMAIN duties :
                        duties[j].day = day /\ eligible[<<crew[i].crew_id, duties[j].duty_id>>]

-----------------------------------------------------------------------------
(* C17: when R = min_rest_days_per_week > 0 the horizon is cut into 7-day
   blocks from day 1, the last one possibly shorter, and in every solution of
   the rostering model each crew member works at most days_in_block - R days
   of each block; when R = 0 the model holds no weekly-rest constraint: its
   only upper bounds on sums of work indicators are the consecutive-day
   windows. *)
LastBlock(horizon_days) == (horizon_days - 1) \div 7

C17_WeeklyRest ==
    LET R == scenario.min_rest_days_per_week
        K == scenario.max_consecutive_work_days
        H == scenario.horizon_days
    IN  /\ (HasSolution /\ cpm.kind = "rostering" /\ R > 0) =>
              \A i \in DOMAIN crew : \A w \in 0..LastBlock(H) :
                  WorkedIn(crew[i].crew_id, BlockDays(w, H)) <= Cardinality(BlockDays(w, H)) - R
        /\ (cpm.kind = "rostering" /\ cpm.ok /\ R = 0) =>
              \A ct \in WorkSumBounds :
                  /\ K < H
                  /\ \E i \in DOMAIN crew : \E start_day \in 1..(H - K) :
                        TermVars(ct) = {WorkVar(crew[i].crew_id, day) : day \in start_day..(start_day + K)}

(* a solution over more than one block in which a crew member with an eligible
   duty on every day of the shorter last block works days_in_block - R of them
   and also works in the first block *)
C17_Witness ==
    LET R == scenario.min_rest_days_per_week
        H == scenario.horizon_days
        last == BlockDays(LastBlock(H), H)
    IN  /\ HasSolution
        /\ cpm.kind = "rostering"
        /\ R > 0
        /\ LastBlock(H) > 0
        /\ Cardinality(last) < 7
        /\ \E i \in DOMAIN crew :
              /\ WorkedIn(crew[i].crew_id, last) = Cardinality(last) - R
              /\ WorkedIn(crew[i].crew_id, BlockDays(0, H)) > 0
              /\ \A day \in last :
                    \E j \in DOMAIN duties :
                        duties[j].day = day /\ eligible[<<crew[i].crew_id, duties[j].duty_id>>]

-----------------------------------------------------------------------------
(* C18: in every solution of the rostering model preference_cost is the sum
   of penalty * work[crew_id, day] over the off-requests that name a crew
   member and a day of the horizon, never more than the sum of all penalties;
   with no such request (an empty list included) the model is built all the
   same and preference_cost is 0. *)
InRange(r) ==
    /\ \E i \in DOMAIN crew : crew[i].crew_id = r.crew_id
    /\ r.day \in 1..scenario.horizon_days

RequestedCost ==
    SumSeq([n \in DOMAIN prefs |->
        IF InRange(prefs[n]) THEN prefs[n].penalty * sol[WorkVar(prefs[n].crew_id, prefs[n].day)] ELSE 0])

C18_PreferenceCostExact ==
    /\ (HasSolution /\ cpm.kind = "rostering") =>
          /\ sol[PrefCostVar] = RequestedCost
          /\ sol[PrefCostVar] <= SumPenalties(prefs)
    /\ (/\ cpm.kind = "rostering"
        /\ \A n \in DOMAIN prefs : ~InRange(prefs[n])
        /\ \A j \in DOMAIN duties : duties[j].day \in 1..scenario.horizon_days) =>
          cpm.ok

-----------------------------------------------------------------------------
(* C19: build_violation_matrix applies the off-request pass, then the
   late->early pass, then the weekly-rest pass, each on worked cells only: a
   cell with work 0 ends with code 0, and a worked cell ends with 4 if it lies
   in a block with weekly-rest shortfall, otherwise 3 if it is the early day of
   a late->early pair, otherwise 2 if an off-request for that crew member and
   day was worked, otherwise 1. *)
InShortfallBlock(c_id, day) ==
    \E n \in DOMAIN frames.weekly_rest :
        /\ frames.weekly_rest[n].crew_id = c_id
        /\ frames.weekly_rest[n].shortfall > 0
        /\ frames.weekly_rest[n].start_day <= day
        /\ day <= frames.weekly_rest[n].end_day

EarlyDayOfPair(c_id, day) ==
    \E n \in DOMAIN frames.late_to_early_pairs :
        frames.late_to_early_pairs[n] = <<c_id, day - 1>>

OffRequestWorked(c_id, day) ==
    \E n \in DOMAIN frames.off_requests :
        /\ frames.off_requests[n].crew_id = c_id
        /\ frames.off_requests[n].day = day
        /\ frames.off_requests[n].worked = 1

C19_ViolationPrecedence ==
    pc = "framed" =>
        /\ DOMAIN frames.violation_matrix = DOMAIN frames.work_matrix
        /\ \A cell \in DOMAIN frames.work_matrix :
              frames.violation_matrix[cell] =
                  IF frames.work_matrix[cell] = 0 THEN 0
                  ELSE IF InShortfallBlock(cell[1], cell[2]) THEN 4
                  ELSE IF EarlyDayOfPair(cell[1], cell[2]) THEN 3
                  ELSE IF OffRequestWorked(cell[1], cell[2]) THEN 2
                  ELSE 1

(* frames in which one worked cell has all three violations and shows 4,
   another is an early day with a worked off-request and shows 3, another has
   only a worked off-request and shows 2, and a rest day shows 0 *)
C19_Witness ==
    /\ pc = "framed"
    /\ \E cell \in DOMAIN frames.work_matrix :
          /\ OffRequestWorked(cell[1], cell[2])
          /\ EarlyDayOfPair(cell[1], cell[2])
          /\ InShortfallBlock(cell[1], cell[2])
          /\ frames.violation_matrix[cell] = 4
    /\ \E cell \in DOMAIN frames.work_matrix :
          /\ OffRequestWorked(cell[1], cell[2])
          /\ EarlyDayOfPair(cell[1], cell[2])
          /\ frames.violation_matrix[cell] = 3
    /\ \E cell \in DOMAIN frames.work_matrix :
          /\ OffRequestWorked(cell[1], cell[2])
          /\ frames.violation_matrix[cell] = 2
    /\ \E cell \in DOMAIN frames.work_matrix :
          /\ frames.work_matrix[cell] = 0
          /\ frames.violation_matrix[cell] = 0

-----------------------------------------------------------------------------
(* C20: for two crew members C1 (CAPT) and C2 (FO) of the same base and
   aircraft type and one duty that needs one captain and one first officer,
   the rostering model exists and has exactly one feasible assignment, C1 and
   C2 both on the duty; both workloads equal the duty's duration, and the
   objective is 0 when only the spread carries a weight. *)
PairCase ==
    /\ Len(crew) = 2
    /\ crew[1].crew_id = "C1" /\ crew[1].role = "CAPT"
    /\ crew[2].crew_id = "C2" /\ crew[2].role = "FO"
    /\ crew[1].base = crew[2].base
    /\ crew[1].qualified_types = crew[2].qualified_types
    /\ Len(duties) = 1
    /\ DOMAIN duties[1].coverage = {"CAPT", "FO"}
    /\ duties[1].coverage["CAPT"] = 1 /\ duties[1].coverage["FO"] = 1
    /\ duties[1].base = crew[1].base
    /\ duties[1].aircraft_type \in crew[1].qualified_types

C20_UniquePairAssignment ==
    (PairCase /\ cpm.kind = "rostering") =>
        /\ cpm.ok
        /\ Cardinality({[key \in cpm.x |-> s[XVar(key[1], key[2])]] : s \in Solutions(cpm)}) = 1
        /\ HasSolution =>
              /\ Assigned("C1", duties[1].duty_id)
              /\ Assigned("C2", duties[1].duty_id)
              /\ sol[TotalVar("C1")] = duties[1].end_min - duties[1].start_min
              /\ sol[TotalVar("C2")] = duties[1].end_min - duties[1].start_min
              /\ sol[SpreadVar] = 0
              /\ scenario.weights = SpreadOnly => ObjectiveValue(cpm, sol) = 0

-----------------------------------------------------------------------------
(* C21: after every OPTIMAL or FEASIBLE solve of the rostering model, on the
   solve_instance path and on the run_rostering_model path alike, a sum of
   recomputed terms that differs from the solver's objective value is
   flagged by a warning. *)
Reconciled ==
    /\ entry \in {"solve_instance", "run_rostering_model"}
    /\ pc \in {"reported", "framed"}

C21_MismatchFlagged ==
    (Reconciled /\ breakdown.objective_value # breakdown.objective_from_terms) =>
        warnings # {}

-----------------------------------------------------------------------------
(* C22: the list returned by check_coverage_feasibility is in ascending order
   of (eligible_count - required, day, duty_id, role), and the same list is
   returned for every reordering of the crew list and of the duty list. *)
IssueKey(x) == <<x.eligible_count - x.required, x.day, IdRank(x.duty_id), IdRank(x.role)>>

RECURSIVE LexLeq(_, _)
LexLeq(a, b) ==
    \/ Len(a) = 0
    \/ Head(a) < Head(b)
    \/ Head(a) = Head(b) /\ LexLeq(Tail(a), Tail(b))

Reordered(s) == {[i \in DOMAIN s |-> s[p[i]]] : p \in Permutations(DOMAIN s)}

PrecheckDone == entry = "run_rostering_model" /\ pc \in {"checked", "aborted"}

C22_IssuesSorted ==
    PrecheckDone =>
        /\ \A n \in 1..(Len(issues) - 1) : LexLeq(IssueKey(issues[n]), IssueKey(issues[n + 1]))
        /\ \A cr \in Reordered(crew), ds \in Reordered(duties) :
              check_coverage_feasibility(cr, ds, eligible) = issues

(* two issues, the one of the later duty of the input more severe and first *)
C22_Witness ==
    /\ PrecheckDone
    /\ Len(issues) = 2
    /\ Len(duties) = 2
    /\ issues[1].duty_id = duties[2].duty_id
    /\ issues[2].duty_id = duties[1].duty_id
    /\ issues[1].day = issues[2].day
    /\ issues[1].eligible_count - issues[1].required < issues[2].eligible_count - issues[2].required

-----------------------------------------------------------------------------
(* C23: check_aggregate_coverage_feasibility returns an issue for a (day,
   base, aircraft_type, role) bucket exactly when the required counts of that
   role, summed over the duties of that (day, base, aircraft_type), exceed
   the number of crew members of that role and base qualified on that type;
   the issue carries those two numbers. *)
AggregateDone == entry = "check_aggregate_coverage_feasibility" /\ pc = "aggregated"

RequiredInBucket(day, base, type, role) ==
    SumSeq([j \in DOMAIN duties |->
               IF /\ duties[j].day = day
                  /\ duties[j].base = base
                  /\ duties[j].aircraft_type = type
                  /\ role \in DOMAIN duties[j].coverage
               THEN duties[j].coverage[role]
               ELSE 0])

AvailableInBucket(base, type, role) ==
    Cardinality({i \in DOMAIN crew :
                    /\ crew[i].role = role
                    /\ crew[i].base = base
                    /\ type \in crew[i].qualified_types})

IssuesOfBucket(day, base, type, role) ==
    {n \in DOMAIN aggregate_issues :
        /\ aggregate_issues[n].day = day
        /\ aggregate_issues[n].base = base
        /\ aggregate_issues[n].aircraft_type = type
        /\ aggregate_issues[n].role = role}

C23_AggregateIssuesExact ==
    AggregateDone =>
        \A day \in 0..(scenario.horizon_days + 1), base \in Bases, type \in AircraftTypes,
           role \in ALLOWED_ROLES \cup {"PURSER"} :
            /\ IssuesOfBucket(day, base, type, role) # {}
                  <=> RequiredInBucket(day, base, type, role) > AvailableInBucket(base, type, role)
            /\ Cardinality(IssuesOfBucket(day, base, type, role)) <= 1
            /\ \A n \in IssuesOfBucket(day, base, type, role) :
                  /\ aggregate_issues[n].required_total = RequiredInBucket(day, base, type, role)
                  /\ aggregate_issues[n].available_total = AvailableInBucket(base, type, role)

(* a bucket of two duties: one role short although a crew member is available,
   another role exactly covered and not reported *)
C23_Witness ==
    /\ AggregateDone
    /\ \E n \in DOMAIN aggregate_issues :
          /\ Len(aggregate_issues[n].duty_ids) = 2
          /\ aggregate_issues[n].available_total >= 1
          /\ \E role \in ALLOWED_ROLES :
                /\ RequiredInBucket(aggregate_issues[n].day, aggregate_issues[n].base,
                                    aggregate_issues[n].aircraft_type, role) >= 1
                /\ IssuesOfBucket(aggregate_issues[n].day, aggregate_issues[n].base,
                                  aggregate_issues[n].aircraft_type, role) = {}

-----------------------------------------------------------------------------
(* C24: the objective of the rostering model is fairness_weight * spread +
   worked_days_weight * worked_days + preference_weight * preference_cost, an
   OPTIMAL solution has the least such value, and in every solution, also
   under a weight of 0, worked_days is the number of (crew, day) cells with
   work = 1, spread is max_load - min_load and preference_cost is the penalty
   of the off-requests that were worked. *)
BuilderWeight(key, default) ==
    IF key \in DOMAIN scenario.weights THEN scenario.weights[key] ELSE default

WeightedCost(val) ==
    BuilderWeight("fairness_spread", 100) * val[SpreadVar]
    + BuilderWeight("worked_days", 1) * val[WorkedDaysVar]
    + BuilderWeight("off_request", 1) * val[PrefCostVar]

WorkedCells == {cell \in cpm.work : sol[WorkVar(cell[1], cell[2])] = 1}

C24_KpisExactUnderAnyWeights ==
    (HasSolution /\ cpm.kind = "rostering") =>
        /\ ObjectiveValue(cpm, sol) = WeightedCost(sol)
        /\ status = "OPTIMAL" => \A s \in Solutions(cpm) : WeightedCost(sol) <= WeightedCost(s)
        /\ sol[WorkedDaysVar] = Cardinality(WorkedCells)
        /\ sol[SpreadVar] = sol[MaxLoadVar] - sol[MinLoadVar]
        /\ sol[PrefCostVar] = RequestedCost

(* worked days and an incurred penalty that the objective weighs with 0 *)
C24_Witness ==
    /\ HasSolution
    /\ cpm.kind = "rostering"
    /\ status = "OPTIMAL"
    /\ BuilderWeight("worked_days", 1) = 0
    /\ BuilderWeight("off_request", 1) = 0
    /\ sol[WorkedDaysVar] > 0
    /\ sol[PrefCostVar] > 0

-----------------------------------------------------------------------------
(* C25: validate_duties raises ValueError exactly when the duty list has a
   duplicate duty_id, or a duty has its day outside 1..horizon_days, or does
   not satisfy 0 <= start_min < end_min <= 1440, or has an empty coverage, a
   coverage role outside {CAPT, FO, FA} or a coverage count <= 0; any other
   duty list is accepted. *)
DutyRuleBroken ==
    \/ \E j, k \in DOMAIN duties : j # k /\ duties[j].duty_id = duties[k].duty_id
    \/ \E j \in DOMAIN duties :
          \/ duties[j].day \notin 1..scenario.horizon_days
          \/ ~(0 <= duties[j].start_min /\ duties[j].start_min < duties[j].end_min
               /\ duties[j].end_min <= 1440)
          \/ DOMAIN duties[j].coverage = {}
          \/ \E role \in DOMAIN duties[j].coverage :
                role \notin {"CAPT", "FO", "FA"} \/ duties[j].coverage[role] <= 0

(* inspect_instance has run validate_duties: validate_crew did not raise *)
DutiesValidated ==
    /\ entry = "inspect_instance"
    /\ pc \in {"validated", "invalid"}
    /\ validate_crew(crew) = "ok"

C25_ValidateDutiesExact ==
    DutiesValidated => (pc = "invalid" <=> DutyRuleBroken)

(* a duty on the last day that ends at 1440 is accepted *)
C25_Witness ==
    /\ DutiesValidated
    /\ pc = "validated"
    /\ \E j \in DOMAIN duties :
          /\ duties[j].end_min = 1440
          /\ duties[j].start_min = 0
          /\ duties[j].day = scenario.horizon_days

-----------------------------------------------------------------------------
(* C26: in every solution of the rostering model a crew member with no
   eligible duty has total_minutes = 0 and work = 0 on every day and occurs
   in no constraint through an assignment variable, and is still part of the
   fairness computation: min_load = 0 and spread = max_load. *)
Idle(i) == \A j \in DOMAIN duties : ~Get(eligible, <<crew[i].crew_id, duties[j].duty_id>>, FALSE)

AssignmentVarsOf(c_id) ==
    {v \in UNION {CtVars(ct) : ct \in cpm.constraints} : v.k = "x" /\ v.c = c_id}

C26_IdleCrewZeroLoad ==
    (HasSolution /\ cpm.kind = "rostering") =>
        \A i \in DOMAIN crew :
            Idle(i) =>
                /\ sol[TotalVar(crew[i].crew_id)] = 0
                /\ \A day \in 1..scenario.horizon_days : sol[WorkVar(crew[i].crew_id, day)] = 0
                /\ AssignmentVarsOf(crew[i].crew_id) = {}
                /\ \A j \in DOMAIN duties : ~Assigned(crew[i].crew_id, duties[j].duty_id)
                /\ sol[MinLoadVar] = 0
                /\ sol[SpreadVar] = sol[MaxLoadVar]

(* an idle crew member next to one who works *)
C26_Witness ==
    /\ HasSolution
    /\ cpm.kind = "rostering"
    /\ \E i \in DOMAIN crew : Idle(i)
    /\ sol[MaxLoadVar] > 0
    /\ sol[SpreadVar] = sol[MaxLoadVar]

-----------------------------------------------------------------------------
(* C27: for a key of the scenario weight table the objective of the built
   model and the breakdown use the same weight; for an absent key the
   objective uses 100 (fairness_spread), 1 (worked_days) or 1 (off_request)
   and the breakdown 0; the breakdown has weekly_rest_shortfall and
   late_to_early terms, the objective only spread, worked_days and
   preference_cost. *)
ObjectiveCoef(v) ==
    SumSeq([n \in DOMAIN cpm.objective |->
               IF cpm.objective[n].var = v THEN cpm.objective[n].coef ELSE 0])

SharedTerms ==
    {<<"fairness_spread", SpreadVar, 100>>, <<"worked_days", WorkedDaysVar, 1>>,
     <<"off_request", PrefCostVar, 1>>}

C27_WeightDefaultsDiffer ==
    Reconciled =>
        /\ \A term \in SharedTerms :
              IF term[1] \in DOMAIN scenario.weights
              THEN /\ ObjectiveCoef(term[2]) = scenario.weights[term[1]]
                   /\ breakdown.terms[term[1]].weight = scenario.weights[term[1]]
              ELSE /\ ObjectiveCoef(term[2]) = term[3]
                   /\ breakdown.terms[term[1]].weight = 0
        /\ {cpm.objective[n].var : n \in DOMAIN cpm.objective} = {SpreadVar, WorkedDaysVar, PrefCostVar}
        /\ DOMAIN breakdown.terms
              = {"fairness_spread", "worked_days", "off_request", "weekly_rest_shortfall", "late_to_early"}
        /\ \A key \in {"weekly_rest_shortfall", "late_to_early"} :
              breakdown.terms[key].weight
                 = (IF key \in DOMAIN scenario.weights THEN scenario.weights[key] ELSE 0)

(* one key present, one absent, and a late_to_early term that counts *)
C27_Witness ==
    /\ Reconciled
    /\ "off_request" \in DOMAIN scenario.weights
    /\ "worked_days" \notin DOMAIN scenario.weights
    /\ ObjectiveCoef(PrefCostVar) = breakdown.terms["off_request"].weight
    /\ ObjectiveCoef(WorkedDaysVar) = 1
    /\ breakdown.terms["worked_days"].weight = 0
    /\ breakdown.terms["worked_days"].value > 0
    /\ breakdown.terms["late_to_early"].contribution > 0
    /\ breakdown.objective_value # breakdown.objective_from_terms

-----------------------------------------------------------------------------
(* C28: with the eligibility map of compute_eligibility and positive coverage
   counts, every issue of check_coverage_feasibility for (duty d, role r) has
   a matching issue of check_aggregate_coverage_feasibility for (d.day,
   d.base, d.aircraft_type, r) with the same number of available crew; when
   the aggregate check returns no issue, neither does the per-duty check. *)
AllCountsPositive ==
    \A j \in DOMAIN duties : \A role \in DOMAIN duties[j].coverage : duties[j].coverage[role] > 0

DutyOf(d_id) == duties[CHOOSE j \in DOMAIN duties : duties[j].duty_id = d_id]

MatchesAggregate(issue, agg) ==
    /\ agg.day = DutyOf(issue.duty_id).day
    /\ agg.base = DutyOf(issue.duty_id).base
    /\ agg.aircraft_type = DutyOf(issue.duty_id).aircraft_type
    /\ agg.role = issue.role
    /\ agg.available_total = issue.eligible_count

C28_PerDutyImpliesAggregate ==
    (PrecheckDone /\ AllCountsPositive) =>
        LET aggregate == check_aggregate_coverage_feasibility(crew, duties)
        IN  /\ \A n \in DOMAIN issues :
                  \E k \in DOMAIN aggregate : MatchesAggregate(issues[n], aggregate[k])
            /\ Len(aggregate) = 0 => Len(issues) = 0

(* a per-duty shortfall inside a bucket of two duties, with a crew member
   available: the aggregate issue asks for more than the duty alone *)
C28_Witness ==
    /\ PrecheckDone
    /\ AllCountsPositive
    /\ \E n \in DOMAIN issues :
          \E k \in DOMAIN check_aggregate_coverage_feasibility(crew, duties) :
             LET agg == check_aggregate_coverage_feasibility(crew, duties)[k]
             IN  /\ MatchesAggregate(issues[n], agg)
                 /\ agg.required_total > issues[n].required
                 /\ agg.available_total >= 1

-----------------------------------------------------------------------------
(* C29: for every OPTIMAL or FEASIBLE solution of the rostering model the
   weekly-rest rows that build_report_frames computes all have shortfall 0,
   and every cell of the violation matrix is 0, 1, 2 or 3, never 4. *)
SolutionFramed == entry = "run_rostering_model" /\ pc = "framed"

C29_NoWeeklyRestCode ==
    SolutionFramed =>
        /\ \A n \in DOMAIN frames.weekly_rest : frames.weekly_rest[n].shortfall = 0
        /\ \A cell \in DOMAIN frames.violation_matrix : frames.violation_matrix[cell] \in {0, 1, 2, 3}

(* a block with exactly the required rest left, and a worked cell *)
C29_Witness ==
    /\ SolutionFramed
    /\ scenario.min_rest_days_per_week > 0
    /\ \E n \in DOMAIN frames.weekly_rest :
          /\ frames.weekly_rest[n].worked_days > 0
          /\ frames.weekly_rest[n].rest_days = scenario.min_rest_days_per_week
    /\ \E cell \in DOMAIN frames.violation_matrix : frames.violation_matrix[cell] >= 1

-----------------------------------------------------------------------------
(* C30: when min_rest_days_per_week = R > 0, the crew list is not empty and
   the last block of the horizon has fewer than R days (horizon_days mod 7 in
   1..R-1), the rostering model holds a constraint "sum of work indicators <=
   negative number" and has no solution, whatever the duties. *)
ShortLastBlock ==
    /\ scenario.min_rest_days_per_week > 0
    /\ Len(crew) > 0
    /\ scenario.horizon_days % 7 \in 1..(scenario.min_rest_days_per_week - 1)

NegativeWorkBounds ==
    {ct \in cpm.constraints :
        /\ ct.kind = "lin"
        /\ ct.op = "le"
        /\ ct.rhs < 0
        /\ \A n \in DOMAIN ct.terms : ct.terms[n].var.k = "work" /\ ct.terms[n].coef = 1}

C30_ShortLastBlockInfeasible ==
    (cpm.kind = "rostering" /\ cpm.ok /\ ShortLastBlock) =>
        /\ NegativeWorkBounds # {}
        /\ Solutions(cpm) = {}
        /\ ~HasSolution

(* a roster without any duty, reported infeasible *)
C30_Witness ==
    /\ cpm.kind = "rostering"
    /\ cpm.ok
    /\ ShortLastBlock
    /\ duties = <<>>
    /\ scenario.horizon_days > 7
    /\ pc = "returned"
    /\ status = "INFEASIBLE"

====
